---- MODULE Spec2Model ----
(***************************************************************************)
(* A model of github.com/davestearns/sessions: the signed session token    *)
(* (NewTokenOfLength, NewRandTokenFromReader, VerifyToken, String, ID) and *)
(* the session Manager (BeginSession, GetToken, GetState, UpdateState,     *)
(* EndSession) over a Store.                                               *)
(*                                                                         *)
(* Byte strings and text strings are sequences of byte values 0..255, so   *)
(* that base64 and the "Bearer " prefix are computed, not assumed.         *)
(***************************************************************************)
EXTENDS Integers, Sequences, FiniteSets, TLC

(***************************************************************************)
(* State                                                                   *)
(***************************************************************************)
VARIABLES
    idLength,       \* manager.idLength
    signingKeys,    \* manager.signingKeys
    store,          \* manager.store: which Store the Manager was given
    entries,        \* the Store's contents (mockStore.entries, or the Redis keys):
                    \* key -> encoded session state
    hist,           \* history: what the Manager calls did to the session of one token
    last,           \* the last Manager call: its arguments and what it returned
    cin,            \* token functions called directly: the arguments of the constructor
    cout,           \* ... what the constructor returned
    cver,           \* ... the last VerifyToken call: its arguments and what it returned
    cpc,            \* ... the caller's position
    held,           \* ... what the caller keeps of the token it constructed: the
                    \* strings it first read, its handle on the ID, what it read last
    procs,          \* concurrent calls on one Manager: each goroutine's position
                    \* and locals
    rng,            \* keyIndexGenerator: the goroutines inside its Intn, and
                    \* whether unsynchronized use has left its state corrupt
    redis,          \* a RedisStore called directly: its SessionDuration, and for
                    \* each key of the server the seconds it has left to live and
                    \* the seconds since a Save or Get last touched it
    pool            \* a redis.Pool of NewRedisPool: testAfterIdle, the idle
                    \* connections (most recently returned first), the
                    \* connections handed out, the Dial count, the last Get

mgrVars == <<idLength, signingKeys, store, entries, hist, last>>

codecVars == <<cin, cout, cver, cpc>>

goVars == <<procs, rng>>

auxVars == <<held, goVars, redis, pool>>

vars == <<idLength, signingKeys, store, entries, hist, last, cin, cout, cver, cpc, held, procs, rng, redis,
         pool>>

(***************************************************************************)
(* Program constants                                                       *)
(***************************************************************************)
MinIDLength == 16

DefaultIDLength == 32

\* crypto/sha256.Size: the length of an HMAC-SHA256 signature
sha256Size == 32

(***************************************************************************)
(* Bounds of the model                                                     *)
(***************************************************************************)
\* the random source delivers one of the byte patterns 1..MaxSeed
MaxSeed == 2

\* a function of the model with all its values computed once, rather than
\* computed again at each application
Tabulate(f) == f @@ <<>>

\* the tabulated value at x, or the computed value where the table has none
Lookup(table, x, computed) == IF x \in DOMAIN table THEN table[x] ELSE computed

(***************************************************************************)
(* Errors: Go's nil error, and the messages the code builds                *)
(***************************************************************************)
NilErr == "<nil>"

ErrZeroKey == "zero-length signing key"

ErrIDLength == "ID length must be at least 16"

ErrNilReader == "nil passed for random reader"

ErrRandom == "error reading random bytes: test error"

ErrBase64 == "error base64-decoding the token: illegal base64 data"

ErrTooShort == "token not long enough"

ErrModified == "token has been modified since signed"

(***************************************************************************)
(* Tokens: the buffer ID || signature. NilToken is Go's nil Token.         *)
(***************************************************************************)
NilToken == [isNil |-> TRUE, buf |-> <<>>]

MkToken(b) == [isNil |-> FALSE, buf |-> b]

(***************************************************************************)
(* encoding/base64.URLEncoding: the URL-safe alphabet, '=' padding,        *)
(* non-strict decoding (Go's default).                                     *)
(***************************************************************************)
PadChar == 61

\* the character of a 6-bit value: A-Z a-z 0-9 - _
B64Char(v) ==
    IF v < 26 THEN 65 + v
    ELSE IF v < 52 THEN 97 + (v - 26)
    ELSE IF v < 62 THEN 48 + (v - 52)
    ELSE IF v = 62 THEN 45
    ELSE 95

\* the 6-bit value of a character, or -1 (decodeMap's 0xff) outside the alphabet
DecodeMapEntry(c) ==
    IF c >= 65 /\ c <= 90 THEN c - 65
    ELSE IF c >= 97 /\ c <= 122 THEN c - 97 + 26
    ELSE IF c >= 48 /\ c <= 57 THEN c - 48 + 52
    ELSE IF c = 45 THEN 62
    ELSE IF c = 95 THEN 63
    ELSE -1

\* enc.decodeMap: one entry per byte value
decodeMap ==
    Tabulate([c \in 0..255 |-> DecodeMapEntry(c)])

B64Val(c) == decodeMap[c]

Pow(b, e) == IF e = 0 THEN 1 ELSE IF e = 1 THEN b ELSE IF e = 2 THEN b * b ELSE b * b * b

\* the encoder: 3 bytes to 4 characters, the last group padded with '='
Base64Encode(buf) ==
    LET n == Len(buf)
        groups == (n + 2) \div 3
        byteAt(i) == IF i <= n THEN buf[i] ELSE 0
        charAt(p) ==
            LET g == (p - 1) \div 4
                k == (p - 1) % 4
                val == byteAt(3 * g + 1) * 65536 + byteAt(3 * g + 2) * 256 + byteAt(3 * g + 3)
            IN  IF (k = 2 /\ 3 * g + 2 > n) \/ (k = 3 /\ 3 * g + 3 > n)
                THEN PadChar
                ELSE B64Char((val \div Pow(64, 3 - k)) % 64)
    IN  [p \in 1..(4 * groups) |-> charAt(p)]

IsNewline(c) == c = 10 \/ c = 13

\* the decoder: [ok, buf]. '\r' and '\n' are skipped wherever they stand; the
\* rest must be whole 4-character quanta, padding only as "xx==" or "xxx=" at
\* the very end; the bits of the last character that no byte takes are ignored.
Base64Decode(s) ==
    LET t == SelectSeq(s, LAMBDA c : ~IsNewline(c))
        n == Len(t)
        pads == IF n >= 1 /\ t[n] = PadChar
                THEN (IF n >= 2 /\ t[n - 1] = PadChar THEN 2 ELSE 1)
                ELSE 0
        wellFormed ==
            /\ n % 4 = 0
            /\ \A p \in 1..(n - pads) : B64Val(t[p]) >= 0
        dval(p) == IF t[p] = PadChar THEN 0 ELSE B64Val(t[p])
        byteAt(i) ==
            LET g == (i - 1) \div 3
                k == (i - 1) % 3
                val == dval(4 * g + 1) * 262144 + dval(4 * g + 2) * 4096
                       + dval(4 * g + 3) * 64 + dval(4 * g + 4)
            IN  (val \div Pow(256, 2 - k)) % 256
    IN  IF wellFormed
        THEN [ok |-> TRUE, buf |-> [i \in 1..(3 * (n \div 4) - pads) |-> byteAt(i)]]
        ELSE [ok |-> FALSE, buf |-> <<>>]

(***************************************************************************)
(* crypto/hmac with SHA-256, abstracted: a keyed digest of sha256Size      *)
(* bytes computed from the key and the message by a polynomial hash.       *)
(***************************************************************************)
HashMod == 46337

HashMul == 257

\* HashMul^k modulo HashMod
RECURSIVE PowMod(_)
PowMod(k) ==
    IF k = 0 THEN 1
    ELSE IF k % 2 = 0 THEN LET h == PowMod(k \div 2) IN (h * h) % HashMod
    ELSE (HashMul * PowMod(k - 1)) % HashMod

\* the polynomial hash of bytes[lo..hi]
RECURSIVE HashBytes(_, _, _)
HashBytes(bytes, lo, hi) ==
    IF lo > hi THEN 0
    ELSE IF lo = hi THEN (bytes[lo] + 1) % HashMod
    ELSE LET mid == (lo + hi) \div 2
         IN  (HashBytes(bytes, lo, mid) * PowMod(hi - mid) + HashBytes(bytes, mid + 1, hi)) % HashMod

Hmac(msg, key) ==
    LET all == key \o <<255>> \o msg
        h == HashBytes(all, 1, Len(all))
    IN  [j \in 1..sha256Size |-> ((h \div Pow(256, (j - 1) % 2)) + j) % 256]

(***************************************************************************)
(* Signing keys used by the model's managers and callers, as byte strings  *)
(***************************************************************************)
K1 == <<107, 49>>

K2 == <<107, 50>>

K3 == <<107, 51>>

EmptyKey == <<>>

(***************************************************************************)
(* io.Reader: randReader / the randReader argument. Read(p) fills at most  *)
(* avail bytes of p and returns (n, err). crypto/rand.Reader fills all of  *)
(* p; errorReader returns (0, error); a reader may also return fewer bytes *)
(* than asked with a nil error (a short read), as the io.Reader contract   *)
(* allows.                                                                 *)
(***************************************************************************)
Seeds == 1..MaxSeed

RandByte(seed, i) == (seed * 89 + i * 37 + 11) % 256

CryptoReader(seed) == [isNil |-> FALSE, seed |-> seed, avail |-> -1, fails |-> FALSE]

errorReader == [isNil |-> FALSE, seed |-> 0, avail |-> 0, fails |-> TRUE]

ShortReader(seed, k) == [isNil |-> FALSE, seed |-> seed, avail |-> k, fails |-> FALSE]

NilReader == [isNil |-> TRUE, seed |-> 0, avail |-> 0, fails |-> FALSE]

\* Read into a zeroed buffer of length len: [buf, n, err]
Read(rd, len) ==
    LET n == IF rd.avail < 0 \/ rd.avail > len THEN len ELSE rd.avail
    IN  [buf |-> [i \in 1..len |-> IF i <= n THEN RandByte(rd.seed, i) ELSE 0],
         n |-> n,
         err |-> IF rd.fails THEN "test error" ELSE NilErr]

(***************************************************************************)
(* The library calls of the token code. Their values on the byte strings   *)
(* the managers of this model handle (IDs of the lengths in TableLens from *)
(* the random source, signed with the keys above) are tabulated once; on   *)
(* any other argument they are computed. The tables hold the values of     *)
(* Base64Encode, Base64Decode and Hmac and nothing else.                   *)
(***************************************************************************)
TableLens == {MinIDLength, DefaultIDLength}

TableKeys == {K1, K2, K3}

TableIDs == {Read(CryptoReader(r), n).buf : r \in Seeds, n \in TableLens}

HmacTable ==
    Tabulate([p \in TableIDs \X TableKeys |-> Hmac(p[1], p[2])])

\* h := hmac.New(sha256.New, key); h.Write(msg); h.Sum(nil)
HmacSum(msg, key) ==
    Lookup(HmacTable, <<msg, key>>, Hmac(msg, key))

TableTokens == {p[1] \o HmacTable[p] : p \in TableIDs \X TableKeys}

EncodeTable ==
    Tabulate([b \in TableTokens \cup TableIDs |-> Base64Encode(b)])

\* base64.URLEncoding.EncodeToString
EncodeToString(buf) ==
    Lookup(EncodeTable, buf, Base64Encode(buf))

\* modToken of the tests: the first character replaced
modToken(s) == [s EXCEPT ![1] = IF s[1] = 65 THEN 66 ELSE 65]

\* the strings of the tabulated tokens, as issued and as modToken leaves them
WithModified(str) == {str, modToken(str)}

TableStrings == UNION {WithModified(EncodeTable[b]) : b \in TableTokens}

DecodeTable ==
    Tabulate([s \in TableStrings |-> Base64Decode(s)])

\* base64.URLEncoding.DecodeString
DecodeString(s) ==
    Lookup(DecodeTable, s, Base64Decode(s))

(***************************************************************************)
(* store.go: the token                                                     *)
(***************************************************************************)
\* the result of a constructor or of VerifyToken: (Token, error), with the
\* number of bytes the random source delivered (what Read returned as n)
Result(tok, err, n) == [tok |-> tok, err |-> err, n |-> n]

\* h := hmac.New(sha256.New, signingKey); h.Write(buf); buf = h.Sum(buf)
Sign(idbuf, signingKey) == idbuf \o HmacSum(idbuf, signingKey)

\* issuance that also refuses the minimum ID length
NewTokenOfLengthAbove(signingKey, idLen, randReader) ==
    IF Len(signingKey) = 0 THEN Result(NilToken, ErrZeroKey, 0)
    ELSE IF idLen <= MinIDLength THEN Result(NilToken, ErrIDLength, 0)
    ELSE LET rd == Read(randReader, idLen)
         IN  IF rd.err # NilErr THEN Result(NilToken, ErrRandom, rd.n)
             ELSE Result(MkToken(Sign(rd.buf, signingKey)), NilErr, rd.n)

NewTokenOfLength(signingKey, idLen, randReader) ==
    IF Len(signingKey) = 0 THEN Result(NilToken, ErrZeroKey, 0)
    ELSE IF idLen < MinIDLength THEN Result(NilToken, ErrIDLength, 0)
    ELSE LET rd == Read(randReader, idLen)
         IN  IF rd.err # NilErr THEN Result(NilToken, ErrRandom, rd.n)
             ELSE Result(MkToken(Sign(rd.buf, signingKey)), NilErr, rd.n)

\* issuance with the minimum ID length as the default
NewTokenMinimal(signingKey, randReader) == NewTokenOfLength(signingKey, MinIDLength, randReader)

NewToken(signingKey, randReader) == NewTokenOfLength(signingKey, DefaultIDLength, randReader)

\* rand_token.go: the constructor that takes the reader as an argument
NewRandTokenFromReader(idLen, randReader, signingKey) ==
    IF Len(signingKey) = 0 THEN Result(NilToken, ErrZeroKey, 0)
    ELSE IF idLen < MinIDLength THEN Result(NilToken, ErrIDLength, 0)
    ELSE IF randReader.isNil THEN Result(NilToken, ErrNilReader, 0)
    ELSE LET rd == Read(randReader, idLen)
         IN  IF rd.err # NilErr THEN Result(NilToken, ErrRandom, rd.n)
             ELSE Result(MkToken(Sign(rd.buf, signingKey)), NilErr, rd.n)

\* a length check that also refuses a buffer of exactly the signature plus the
\* minimum ID
VerifyDecodedNotLonger(dec, signingKey) ==
    IF ~dec.ok THEN Result(NilToken, ErrBase64, 0)
    ELSE IF Len(dec.buf) <= sha256Size + MinIDLength THEN Result(NilToken, ErrTooShort, 0)
    ELSE IF SubSeq(dec.buf, Len(dec.buf) - sha256Size + 1, Len(dec.buf))
            # HmacSum(SubSeq(dec.buf, 1, Len(dec.buf) - sha256Size), signingKey)
         THEN Result(NilToken, ErrModified, 0)
    ELSE Result(MkToken(dec.buf), NilErr, 0)

\* VerifyToken from the result of base64.URLEncoding.DecodeString on: the
\* length check, the split into ID and signature, the comparison of signatures
VerifyDecoded(dec, signingKey) ==
    IF ~dec.ok THEN Result(NilToken, ErrBase64, 0)
    ELSE IF Len(dec.buf) < sha256Size + MinIDLength THEN Result(NilToken, ErrTooShort, 0)
    ELSE LET buf == dec.buf
             sigStart == Len(buf) - sha256Size
             id == SubSeq(buf, 1, sigStart)
             sig == SubSeq(buf, sigStart + 1, Len(buf))
             sig2 == HmacSum(id, signingKey)
         IN  IF sig # sig2 THEN Result(NilToken, ErrModified, 0)
             ELSE Result(MkToken(buf), NilErr, 0)

VerifyToken(b64token, signingKey) ==
    IF Len(signingKey) = 0 THEN Result(NilToken, ErrZeroKey, 0)
    ELSE VerifyDecoded(DecodeString(b64token), signingKey)

\* rand_token.go: VerifyToken, from the result of DecodeString on; the buffer
\* has to be longer than the signature only
VerifyRandDecoded(dec, signingKey) ==
    IF ~dec.ok THEN Result(NilToken, ErrBase64, 0)
    ELSE IF Len(dec.buf) <= sha256Size THEN Result(NilToken, ErrTooShort, 0)
    ELSE IF SubSeq(dec.buf, Len(dec.buf) - sha256Size + 1, Len(dec.buf))
            # HmacSum(SubSeq(dec.buf, 1, Len(dec.buf) - sha256Size), signingKey)
         THEN Result(NilToken, ErrModified, 0)
    ELSE Result(MkToken(dec.buf), NilErr, 0)

VerifyRandToken(token, signingKey) ==
    IF Len(signingKey) = 0 THEN Result(NilToken, ErrZeroKey, 0)
    ELSE VerifyRandDecoded(DecodeString(token), signingKey)

\* String() in an encoding without padding
StringUnpadded(t) == SelectSeq(EncodeToString(t.buf), LAMBDA c : c # PadChar)

\* (t *token) String()
String(t) == EncodeToString(t.buf)

\* (t *token) ID(): the ID bytes, without the signature
ID(t) == SubSeq(t.buf, 1, Len(t.buf) - sha256Size)

\* (i *id) Len()
IDLen(t) == Len(ID(t))

\* an ID string that tells only the length of the ID
IDStringOfLength(t) == EncodeToString(<<IDLen(t)>>)

\* (i *id) String()
IDString(t) == EncodeToString(ID(t))

(***************************************************************************)
(* manager_test.go: mockStore, the Store the Manager is given. Session     *)
(* state is stored gob-encoded under the string of the token's ID. The     *)
(* tests set triggerError between calls; a call is given its value.        *)
(***************************************************************************)
\* the session states callers pass
States == {"s1", "s2"}

\* the caller's sessionState variable when nothing was decoded into it
Untouched == "untouched"

\* a state gob cannot encode: func() {}
FuncState == "func() {}"

\* gob encodes values of basic, struct, slice and map types, no func
GobEncodable(sessionState) == sessionState # FuncState

\* the error of Encode for a value it cannot encode
ErrGobType == "gob: type not encodable: func()"

\* gob.NewEncoder(buf).Encode(sessionState)
GobEncode(sessionState) == <<"gob", sessionState>>

\* gob.NewDecoder(...).Decode(sessionState)
GobDecode(val) == val[2]

NoEntries == [k \in {} |-> <<>>]

StoreOut(err, ent, st, pan) == [err |-> err, entries |-> ent, state |-> st, panicked |-> pan]

\* a write that keeps the value of an existing key
PutIfAbsent(ent, key, val) ==
    [k \in DOMAIN ent \cup {key} |-> IF k \in DOMAIN ent THEN ent[k] ELSE val]

\* ms.entries[key] = val
Put(ent, key, val) == [k \in DOMAIN ent \cup {key} |-> IF k = key THEN val ELSE ent[k]]

\* a delete that removes nothing
RemoveNothing(ent, key) == ent

\* delete(ms.entries, key)
Remove(ent, key) == [k \in DOMAIN ent \ {key} |-> ent[k]]

\* a Save that never fails
SaveIgnoringError(triggerError, token, sessionState) ==
    IF token.isNil THEN StoreOut(NilErr, entries, Untouched, TRUE)
    ELSE StoreOut(NilErr, Put(entries, IDString(token), GobEncode(sessionState)), Untouched, FALSE)

\* a nil Token makes token.ID() panic (nil pointer dereference)
Save(triggerError, token, sessionState) ==
    IF triggerError THEN StoreOut("test error", entries, Untouched, FALSE)
    ELSE IF ~GobEncodable(sessionState) THEN StoreOut(ErrGobType, entries, Untouched, FALSE)
    ELSE IF token.isNil THEN StoreOut(NilErr, entries, Untouched, TRUE)
    ELSE StoreOut(NilErr, Put(entries, IDString(token), GobEncode(sessionState)), Untouched, FALSE)

\* a Get that finds the zero state under a key it does not hold
GetAbsentAsZero(triggerError, token) ==
    IF triggerError THEN StoreOut("test error", entries, Untouched, FALSE)
    ELSE IF token.isNil THEN StoreOut(NilErr, entries, Untouched, TRUE)
    ELSE IF IDString(token) \notin DOMAIN entries
         THEN StoreOut(NilErr, entries, Untouched, FALSE)
    ELSE StoreOut(NilErr, entries, GobDecode(entries[IDString(token)]), FALSE)

Get(triggerError, token) ==
    IF triggerError THEN StoreOut("test error", entries, Untouched, FALSE)
    ELSE IF token.isNil THEN StoreOut(NilErr, entries, Untouched, TRUE)
    ELSE IF IDString(token) \notin DOMAIN entries
         THEN StoreOut("no data found", entries, Untouched, FALSE)
    ELSE StoreOut(NilErr, entries, GobDecode(entries[IDString(token)]), FALSE)

\* a Delete that fails for a key the store does not hold
DeleteStrict(triggerError, token) ==
    IF triggerError THEN StoreOut("test error", entries, Untouched, FALSE)
    ELSE IF token.isNil THEN StoreOut(NilErr, entries, Untouched, TRUE)
    ELSE IF IDString(token) \notin DOMAIN entries
         THEN StoreOut("no data found", entries, Untouched, FALSE)
    ELSE StoreOut(NilErr, Remove(entries, IDString(token)), Untouched, FALSE)

Delete(triggerError, token) ==
    IF triggerError THEN StoreOut("test error", entries, Untouched, FALSE)
    ELSE IF token.isNil THEN StoreOut(NilErr, entries, Untouched, TRUE)
    ELSE StoreOut(NilErr, Remove(entries, IDString(token)), Untouched, FALSE)

(***************************************************************************)
(* redis.go: RedisStore. The session state is stored gob-encoded under     *)
(* "sid:" and the string of the token's ID. triggerError stands for a      *)
(* Redis command that fails (the connection is down). No time passes       *)
(* between the calls, so that no key expires.                              *)
(***************************************************************************)
\* "sid:"
SidPrefix == <<115, 105, 100, 58>>

getRedisKey(token) == SidPrefix \o IDString(token)

\* redis.ErrNil: what redis.Bytes returns for a nil reply
ErrNil == "redigo: nil returned"

\* the error of a command on a connection that is down
ErrConn == "connection refused"

\* a Get that takes the nil reply of an absent key for an empty state
RedisGetNilAsEmpty(triggerError, token) ==
    IF token.isNil THEN StoreOut(NilErr, entries, Untouched, TRUE)
    ELSE IF triggerError
         THEN StoreOut("error executing GET: " \o ErrConn, entries, Untouched, FALSE)
    ELSE IF getRedisKey(token) \notin DOMAIN entries
         THEN StoreOut(NilErr, entries, Untouched, FALSE)
    ELSE StoreOut(NilErr, entries, GobDecode(entries[getRedisKey(token)]), FALSE)

\* a Save that takes a connection before it encodes the state
RedisSaveEncodingLast(triggerError, token, sessionState) ==
    IF token.isNil THEN StoreOut(NilErr, entries, Untouched, TRUE)
    ELSE IF triggerError
         THEN StoreOut("error executing SETEX: " \o ErrConn, entries, Untouched, FALSE)
    ELSE IF ~GobEncodable(sessionState)
         THEN StoreOut("error encoding session state: " \o ErrGobType, entries, Untouched, FALSE)
    ELSE StoreOut(NilErr, Put(entries, getRedisKey(token), GobEncode(sessionState)),
                  Untouched, FALSE)

\* the state is encoded before a connection is taken and before
\* getRedisKey(token), which panics for a nil Token
RedisSave(triggerError, token, sessionState) ==
    IF ~GobEncodable(sessionState)
    THEN StoreOut("error encoding session state: " \o ErrGobType, entries, Untouched, FALSE)
    ELSE IF token.isNil THEN StoreOut(NilErr, entries, Untouched, TRUE)
    ELSE IF triggerError
         THEN StoreOut("error executing SETEX: " \o ErrConn, entries, Untouched, FALSE)
    ELSE StoreOut(NilErr, Put(entries, getRedisKey(token), GobEncode(sessionState)),
                  Untouched, FALSE)

\* GET of an absent key replies nil, and redis.Bytes makes that ErrNil
RedisGet(triggerError, token) ==
    IF token.isNil THEN StoreOut(NilErr, entries, Untouched, TRUE)
    ELSE IF triggerError
         THEN StoreOut("error executing GET: " \o ErrConn, entries, Untouched, FALSE)
    ELSE IF getRedisKey(token) \notin DOMAIN entries
         THEN StoreOut("error executing GET: " \o ErrNil, entries, Untouched, FALSE)
    ELSE StoreOut(NilErr, entries, GobDecode(entries[getRedisKey(token)]), FALSE)

RedisDelete(triggerError, token) ==
    IF token.isNil THEN StoreOut(NilErr, entries, Untouched, TRUE)
    ELSE IF triggerError
         THEN StoreOut("error executing DEL: " \o ErrConn, entries, Untouched, FALSE)
    ELSE StoreOut(NilErr, Remove(entries, getRedisKey(token)), Untouched, FALSE)

\* the decimal digits of a natural number, as characters
RECURSIVE Digits(_)
Digits(n) == IF n < 10 THEN <<48 + n>> ELSE Digits(n \div 10) \o <<48 + (n % 10)>>

\* a string of digits without its trailing zeros
RECURSIVE TrimZeros(_)
TrimZeros(d) ==
    IF Len(d) > 0 /\ d[Len(d)] = 48 THEN TrimZeros(SubSeq(d, 1, Len(d) - 1)) ELSE d

\* rs.SessionDuration.Seconds() as the connection writes it in the command:
\* the float64 in the shortest 'g' format. ms is the duration in milliseconds.
\* Whole seconds below 10^6 are written as an integer, a fraction of a
\* second after a decimal point, whole seconds from 10^6 with an exponent
FormatSeconds(ms) ==
    LET whole == Digits(ms \div 1000)
        frac == SubSeq(Digits(1000 + (ms % 1000)), 2, 4)
        mant == TrimZeros(whole)
        exp == Len(whole) - 1
    IN  IF ms % 1000 # 0 THEN whole \o <<46>> \o TrimZeros(frac)
        ELSE IF Len(whole) <= 6 THEN whole
        ELSE <<mant[1]>> \o (IF Len(mant) > 1 THEN <<46>> \o SubSeq(mant, 2, Len(mant))
                              ELSE <<>>)
             \o <<101, 43>> \o (IF exp < 10 THEN <<48>> ELSE <<>>) \o Digits(exp)

\* the server reads the seconds of SETEX and EXPIRE as an integer
IsInteger(text) == Len(text) > 0 /\ \A i \in DOMAIN text : text[i] \in 48..57

RECURSIVE ParseInt(_)
ParseInt(text) ==
    IF Len(text) = 0 THEN 0
    ELSE 10 * ParseInt(SubSeq(text, 1, Len(text) - 1)) + (text[Len(text)] - 48)

ErrNotInteger == "ERR value is not an integer or out of range"

(***************************************************************************)
(* The Store interface: the methods of the Store the Manager was given     *)
(***************************************************************************)
StoreSave(triggerError, token, sessionState) ==
    IF store = "RedisStore" THEN RedisSave(triggerError, token, sessionState)
    ELSE Save(triggerError, token, sessionState)

StoreGet(triggerError, token) ==
    IF store = "RedisStore" THEN RedisGet(triggerError, token)
    ELSE Get(triggerError, token)

StoreDelete(triggerError, token) ==
    IF store = "RedisStore" THEN RedisDelete(triggerError, token)
    ELSE Delete(triggerError, token)

\* the key under which the Store keeps the state of the token's session
StoreKey(token) == IF store = "RedisStore" THEN getRedisKey(token) ELSE IDString(token)

(***************************************************************************)
(* manager.go                                                              *)
(***************************************************************************)
\* "Bearer"
authTypeBearer == <<66, 101, 97, 114, 101, 114>>

ErrNoToken == "no session token"

ErrUnsupportedTokenType == "unsupported session token type"

\* the error value of a call that panicked instead of returning
Panic == "panic"

\* strings.HasPrefix
HasPrefix(str, prefix) == Len(str) >= Len(prefix) /\ SubSeq(str, 1, Len(prefix)) = prefix

\* fmt.Sprintf("%s %s", authTypeBearer, tk.String())
BearerValue(str) == authTypeBearer \o <<32>> \o str

\* a response whose header is left as it was
HeaderKeep(w, value) == w

\* w.Header().Add(headerAuthorization, value): appended to the values of the key
HeaderAdd(w, value) == Append(w, value)

\* Header().Get(headerAuthorization): the first value of the key, "" without one
HeaderGet(w) == IF Len(w) = 0 THEN <<>> ELSE w[1]

\* a request: the Authorization header's first value and the decoded value of
\* the auth query parameter, each empty when absent
Request(header, query) == [header |-> header, query |-> query]

NoRequest == Request(<<>>, <<>>)

NewManager(len, keys, st) == [idLength |-> len, signingKeys |-> keys, store |-> st]

TokOut(tok, err, tried, pan) == [tok |-> tok, err |-> err, tried |-> tried, panicked |-> pan]

\* the loop without the break: the result of the last key of the ring
VerifyWithLastKey(b64tk, keys) ==
    LET n == Len(keys)
        r == VerifyToken(b64tk, keys[n])
    IN  IF n = 0 THEN TokOut(NilToken, NilErr, 0, FALSE)
        ELSE TokOut(r.tok, r.err, n, FALSE)

\* the loop over m.signingKeys: VerifyToken with each key until one verifies.
\* tried: how many keys VerifyToken was called with
\* res[i]: what VerifyToken returned for the i-th key
LoopOver(res) ==
    LET n == Len(res)
        ok == {i \in 1..n : res[i].err = NilErr}
        stop == IF ok = {} THEN n ELSE CHOOSE i \in ok : \A j \in ok : i <= j
    IN  IF n = 0 THEN TokOut(NilToken, NilErr, 0, FALSE)
        ELSE TokOut(res[stop].tok, res[stop].err, stop, FALSE)

VerifyWithKeys(b64tk, keys) ==
    LoopOver(Tabulate([i \in 1..Len(keys) |-> VerifyToken(b64tk, keys[i])]))

\* the end of GetToken: v is what the loop over the keys left in (token, err)
Verified(v) ==
    IF v.err # NilErr
    THEN TokOut(NilToken, "error verifying session token: " \o v.err, v.tried, FALSE)
    ELSE v

\* GetToken without the fallback to the auth query parameter
GetTokenHeaderOnly(keys, r) ==
    IF Len(r.header) = 0 THEN TokOut(NilToken, ErrNoToken, 0, FALSE)
    ELSE IF ~HasPrefix(r.header, authTypeBearer)
         THEN TokOut(NilToken, ErrUnsupportedTokenType, 0, FALSE)
    ELSE IF Len(r.header) < Len(authTypeBearer) + 1 THEN TokOut(NilToken, Panic, 0, TRUE)
    ELSE Verified(VerifyWithKeys(SubSeq(r.header, Len(authTypeBearer) + 2, Len(r.header)), keys))

\* GetToken that takes the auth query parameter before the header
GetTokenQueryFirst(keys, r) ==
    LET authHeader == IF Len(r.query) = 0 THEN r.header ELSE r.query
    IN  IF Len(authHeader) = 0 THEN TokOut(NilToken, ErrNoToken, 0, FALSE)
        ELSE IF ~HasPrefix(authHeader, authTypeBearer)
             THEN TokOut(NilToken, ErrUnsupportedTokenType, 0, FALSE)
        ELSE IF Len(authHeader) < Len(authTypeBearer) + 1 THEN TokOut(NilToken, Panic, 0, TRUE)
        ELSE Verified(VerifyWithKeys(SubSeq(authHeader, Len(authTypeBearer) + 2, Len(authHeader)), keys))

\* GetToken of a manager whose signingKeys are keys
GetTokenOf(keys, r) ==
    LET authHeader == IF Len(r.header) = 0 THEN r.query ELSE r.header
    IN  IF Len(authHeader) = 0 THEN TokOut(NilToken, ErrNoToken, 0, FALSE)
        ELSE IF ~HasPrefix(authHeader, authTypeBearer)
             THEN TokOut(NilToken, ErrUnsupportedTokenType, 0, FALSE)
        \* authHeader[len(authTypeBearer)+1:] of a shorter authHeader: slice bounds out of range
        ELSE IF Len(authHeader) < Len(authTypeBearer) + 1 THEN TokOut(NilToken, Panic, 0, TRUE)
        ELSE Verified(VerifyWithKeys(SubSeq(authHeader, Len(authTypeBearer) + 2, Len(authHeader)), keys))

(***************************************************************************)
(* The managers, callers and clients of the model                          *)
(***************************************************************************)
Configs ==
    {NewManager(MinIDLength, <<K1, K2>>, "mockStore"),
     NewManager(DefaultIDLength, <<EmptyKey, K1>>, "mockStore"),
     NewManager(MinIDLength - 1, <<K1>>, "mockStore"),
     NewManager(MinIDLength, <<>>, "mockStore"),
     NewManager(MinIDLength, <<K1>>, "RedisStore")}

\* the random source of BeginSession: crypto/rand.Reader, or the tests' errorReader
ManagerReaders == {CryptoReader(r) : r \in Seeds} \cup {errorReader}

\* "Basic xyz"
BasicValue == <<66, 97, 115, 105, 99, 32, 120, 121, 122>>

\* the response a handler passes to BeginSession: its Authorization values,
\* none or one that was set before
ResponseSinks == {<<>>, <<BasicValue>>}

\* validly signed tokens: the ID from the random source, signed with a key
TokenOf(seed, len, key) == MkToken(Sign(Read(CryptoReader(seed), len).buf, key))

TokenTable ==
    Tabulate([p \in Seeds \X TableLens \X {K1, K2} |-> TokenOf(p[1], p[2], p[3])])

\* the tokens that clients and handlers hold: signed with K1 or with K2
\* (by this manager, or by another one that has the key)
TokensOfLen(len) == {TokenTable[<<r, len, k>>] : r \in Seeds, k \in {K1, K2}}

\* the requests clients send: a token in the header, a token in the query, a
\* modified token, no token, another authorization scheme
RequestsOfLen(len) ==
    {Request(BearerValue(String(t)), <<>>) : t \in TokensOfLen(len)}
    \cup {Request(<<>>, BearerValue(String(TokenTable[<<1, len, k>>]))) : k \in {K1, K2}}
    \cup {Request(BearerValue(modToken(String(TokenTable[<<1, len, K1>>]))), <<>>)}
    \cup {NoRequest, Request(BasicValue, <<>>)}

RequestTable ==
    Tabulate([len \in TableLens |-> RequestsOfLen(len)])

\* GetTokenOf, tabulated for the managers and requests above
GetTokenTable ==
    Tabulate([p \in {m.signingKeys : m \in Configs} \X UNION {RequestTable[len] : len \in TableLens}
        |-> GetTokenOf(p[1], p[2])])

\* NewTokenOfLength, tabulated for the managers above
NewTokenTable ==
    Tabulate([p \in {K1, K2, EmptyKey} \X {m.idLength : m \in Configs} \X ManagerReaders
        |-> NewTokenOfLength(p[1], p[2], p[3])])

\* the ID length of the tokens clients present: the manager's, when it can issue
PresentedLen == IF idLength < MinIDLength THEN MinIDLength ELSE idLength

PresentedTokens == TokensOfLen(PresentedLen)

Requests == RequestTable[PresentedLen]

(***************************************************************************)
(* The Manager's methods                                                   *)
(***************************************************************************)
GetToken(r) ==
    Lookup(GetTokenTable, <<signingKeys, r>>, GetTokenOf(signingKeys, r))

\* a token issued although issuance failed
IssueTokenUnchecked(keyidx, randReader) ==
    Result(TokenTable[<<1, MinIDLength, K1>>], NilErr, MinIDLength)

\* NewTokenOfLength(m.signingKeys[keyidx], m.idLength) reading from randReader
IssueToken(keyidx, randReader) ==
    Lookup(NewTokenTable, <<signingKeys[keyidx + 1], idLength, randReader>>,
           NewTokenOfLength(signingKeys[keyidx + 1], idLength, randReader))

\* what a Manager call was given: the request, the token and session state
\* arguments, the response's Authorization values, and what its environment
\* gave it: the key index drawn, the random source, the Store's triggerError
CallArg(op, r, token, sessionState, w, keyidx, randReader, triggerError) ==
    [op |-> op, req |-> r, token |-> token, state |-> sessionState, w |-> w,
     keyidx |-> keyidx, randReader |-> randReader, triggerError |-> triggerError]

\* what a Manager call returned: the token and error, the caller's sessionState
\* afterwards, the Store calls it made, the number of keys VerifyToken was
\* tried with, the response's Authorization values afterwards
CallRet(tok, err, state, calls, tried, w, pan) ==
    [tok |-> tok, err |-> err, state |-> state, calls |-> calls, tried |-> tried,
     w |-> w, panicked |-> pan]

NoCallYet ==
    [arg |-> CallArg("none", NoRequest, NilToken, Untouched, <<>>, -1, NilReader, FALSE),
     ret |-> CallRet(NilToken, NilErr, Untouched, <<>>, 0, <<>>, FALSE)]

StoreCall(op, token) == [op |-> op, key |-> IF token.isNil THEN <<>> ELSE IDString(token)]

\* history of the session of hist.focus. ended: an EndSession for the token has
\* succeeded, and no BeginSession has written the entry of its ID since. since:
\* the last successful call that wrote or deleted the entry of the token's ID
\* ("begun": BeginSession returning the token; "ended": EndSession with the
\* token; "ended again": EndSession with the token, the call before it having
\* been "ended" or "ended again"; "updated": UpdateState with the
\* token on an existing entry; "replaced": BeginSession returning another token
\* of the same ID over an existing entry; "none": any other, or none yet).
\* state: the state that call was given
WriteBy(op, token, sessionState, wasActive) ==
    IF token = hist.focus
    THEN [hist EXCEPT !.ended = IF op = "EndSession" THEN TRUE
                                ELSE IF op = "BeginSession" THEN FALSE ELSE @,
                      !.since = IF op = "BeginSession" THEN "begun"
                                ELSE IF op = "UpdateState" /\ wasActive THEN "updated"
                                ELSE IF op = "EndSession"
                                THEN (IF @ \in {"ended", "ended again"} THEN "ended again"
                                      ELSE "ended")
                                ELSE "none",
                      !.state = IF op = "BeginSession" \/ (op = "UpdateState" /\ wasActive)
                                THEN sessionState ELSE Untouched]
    ELSE IF ID(token) = ID(hist.focus)
    THEN [hist EXCEPT !.ended = IF op = "BeginSession" THEN FALSE ELSE @,
                      !.since = IF op = "BeginSession" /\ wasActive THEN "replaced"
                                ELSE "none",
                      !.state = Untouched]
    ELSE hist

\* the values keyIndexGenerator.Intn(len(m.signingKeys)) returns; for an empty
\* ring it panics, and 0 stands for that one outcome
KeyIndexes == 0..(IF Len(signingKeys) = 0 THEN 0 ELSE Len(signingKeys) - 1)

\* BeginSession once keyIndexGenerator.Intn has returned keyidx
BeginSessionFrom(w, sessionState, keyidx, randReader, triggerError) ==
    /\ keyidx \in KeyIndexes
    /\ LET arg == CallArg("BeginSession", NoRequest, NilToken, sessionState, w,
                          IF Len(signingKeys) = 0 THEN -1 ELSE keyidx, randReader, triggerError)
       IN  IF Len(signingKeys) = 0
           THEN \* keyIndexGenerator.Intn(0) panics
                /\ last' = [arg |-> arg,
                            ret |-> CallRet(NilToken, Panic, sessionState, <<>>, 0, w, TRUE)]
                /\ UNCHANGED <<entries, hist>>
           ELSE \E r \in {IssueToken(keyidx, randReader)} :
                \E sv \in {StoreSave(triggerError, r.tok, sessionState)} :
                    IF r.err # NilErr
                    THEN /\ last' = [arg |-> arg,
                                     ret |-> CallRet(NilToken,
                                                     "error generating new token: " \o r.err,
                                                     sessionState, <<>>, 0, w, FALSE)]
                         /\ UNCHANGED <<entries, hist>>
                    ELSE IF sv.err # NilErr
                    THEN /\ last' = [arg |-> arg,
                                     ret |-> CallRet(NilToken,
                                                     "error saving session state: " \o sv.err,
                                                     sessionState, <<StoreCall("Save", r.tok)>>,
                                                     0, w, FALSE)]
                         /\ UNCHANGED <<entries, hist>>
                    ELSE /\ last' = [arg |-> arg,
                                     ret |-> CallRet(r.tok, NilErr, sessionState,
                                                     <<StoreCall("Save", r.tok)>>, 0,
                                                     HeaderAdd(w, BearerValue(String(r.tok))),
                                                     FALSE)]
                         /\ entries' = sv.entries
                         /\ hist' = WriteBy("BeginSession", r.tok, sessionState,
                                            StoreKey(r.tok) \in DOMAIN entries)
    /\ UNCHANGED <<idLength, signingKeys, store>>

BeginSession(w, sessionState, keyidx, randReader, triggerError) ==
    /\ BeginSessionFrom(w, sessionState, keyidx, randReader, triggerError)
    /\ UNCHANGED <<codecVars, auxVars>>

\* a GetToken that looks the token up in the Store
GetTokenCallStored(r) ==
    /\ \E g \in {GetToken(r)} :
           last' = [arg |-> CallArg("GetToken", r, NilToken, Untouched, <<>>, -1, NilReader, FALSE),
                    ret |-> IF g.err = NilErr /\ ~g.panicked /\ ~g.tok.isNil
                               /\ StoreKey(g.tok) \notin DOMAIN entries
                            THEN CallRet(NilToken, ErrNoToken, Untouched,
                                         <<StoreCall("Get", g.tok)>>, g.tried, <<>>, FALSE)
                            ELSE CallRet(g.tok, g.err, Untouched, <<>>, g.tried, <<>>,
                                         g.panicked)]
    /\ UNCHANGED <<idLength, signingKeys, store, entries, hist>>
    /\ UNCHANGED <<codecVars, auxVars>>

GetTokenCall(r) ==
    /\ \E g \in {GetToken(r)} :
           last' = [arg |-> CallArg("GetToken", r, NilToken, Untouched, <<>>, -1, NilReader, FALSE),
                    ret |-> CallRet(g.tok, g.err, Untouched, <<>>, g.tried, <<>>, g.panicked)]
    /\ UNCHANGED <<idLength, signingKeys, store, entries, hist>>
    /\ UNCHANGED <<codecVars, auxVars>>

\* a GetState that asks the Store again when its Get failed
GetStateRetrying(r, triggerError) ==
    /\ \E g \in {GetToken(r)} :
       \E st \in {StoreGet(triggerError, g.tok)} :
       LET arg == CallArg("GetState", r, NilToken, Untouched, <<>>, -1, NilReader, triggerError)
       IN  IF g.panicked \/ g.err # NilErr
           THEN last' = [arg |-> arg,
                         ret |-> CallRet(NilToken, g.err, Untouched, <<>>, g.tried, <<>>,
                                         g.panicked)]
           ELSE IF st.panicked
           THEN last' = [arg |-> arg,
                         ret |-> CallRet(NilToken, Panic, Untouched,
                                         <<StoreCall("Get", g.tok)>>, g.tried, <<>>, TRUE)]
           ELSE IF st.err # NilErr
           THEN last' = [arg |-> arg,
                         ret |-> CallRet(NilToken, "error getting session state: " \o st.err,
                                         Untouched,
                                         <<StoreCall("Get", g.tok), StoreCall("Get", g.tok)>>,
                                         g.tried, <<>>, FALSE)]
           ELSE last' = [arg |-> arg,
                         ret |-> CallRet(g.tok, NilErr, st.state,
                                         <<StoreCall("Get", g.tok)>>, g.tried, <<>>, FALSE)]
    /\ UNCHANGED <<idLength, signingKeys, store, entries, hist>>
    /\ UNCHANGED <<codecVars, auxVars>>

GetState(r, triggerError) ==
    /\ \E g \in {GetToken(r)} :
       \E st \in {StoreGet(triggerError, g.tok)} :
       LET arg == CallArg("GetState", r, NilToken, Untouched, <<>>, -1, NilReader, triggerError)
       IN  IF g.panicked \/ g.err # NilErr
           THEN last' = [arg |-> arg,
                         ret |-> CallRet(NilToken, g.err, Untouched, <<>>, g.tried, <<>>,
                                         g.panicked)]
           ELSE IF st.panicked
           THEN last' = [arg |-> arg,
                         ret |-> CallRet(NilToken, Panic, Untouched,
                                         <<StoreCall("Get", g.tok)>>, g.tried, <<>>, TRUE)]
           ELSE IF st.err # NilErr
           THEN last' = [arg |-> arg,
                         ret |-> CallRet(NilToken, "error getting session state: " \o st.err,
                                         Untouched, <<StoreCall("Get", g.tok)>>, g.tried,
                                         <<>>, FALSE)]
           ELSE last' = [arg |-> arg,
                         ret |-> CallRet(g.tok, NilErr, st.state,
                                         <<StoreCall("Get", g.tok)>>, g.tried, <<>>, FALSE)]
    /\ UNCHANGED <<idLength, signingKeys, store, entries, hist>>
    /\ UNCHANGED <<codecVars, auxVars>>

\* an UpdateState that saves only for a token signed with a key of the ring
UpdateStateVerified(token, sessionState, triggerError) ==
    /\ \E sv \in {StoreSave(triggerError, token, sessionState)} :
       \E ok \in {\E i \in DOMAIN signingKeys : token.buf = Sign(ID(token), signingKeys[i])} :
           /\ last' = [arg |-> CallArg("UpdateState", NoRequest, token, sessionState, <<>>, -1,
                                       NilReader, triggerError),
                       ret |-> IF ok
                               THEN CallRet(NilToken, IF sv.panicked THEN Panic ELSE sv.err,
                                            sessionState, <<StoreCall("Save", token)>>, 0,
                                            <<>>, sv.panicked)
                               ELSE CallRet(NilToken, ErrModified, sessionState, <<>>,
                                            Len(signingKeys), <<>>, FALSE)]
           /\ entries' = IF ok THEN sv.entries ELSE entries
           /\ hist' = IF ~ok \/ sv.panicked \/ sv.err # NilErr THEN hist
                      ELSE WriteBy("UpdateState", token, sessionState,
                                   StoreKey(token) \in DOMAIN entries)
    /\ UNCHANGED <<idLength, signingKeys, store>>
    /\ UNCHANGED <<codecVars, auxVars>>

UpdateState(token, sessionState, triggerError) ==
    /\ \E sv \in {StoreSave(triggerError, token, sessionState)} :
           /\ last' = [arg |-> CallArg("UpdateState", NoRequest, token, sessionState, <<>>, -1,
                                       NilReader, triggerError),
                       ret |-> CallRet(NilToken, IF sv.panicked THEN Panic ELSE sv.err,
                                       sessionState, <<StoreCall("Save", token)>>, 0, <<>>,
                                       sv.panicked)]
           /\ entries' = sv.entries
           /\ hist' = IF sv.panicked \/ sv.err # NilErr THEN hist
                      ELSE WriteBy("UpdateState", token, sessionState,
                                   StoreKey(token) \in DOMAIN entries)
    /\ UNCHANGED <<idLength, signingKeys, store>>
    /\ UNCHANGED <<codecVars, auxVars>>

EndSession(r, triggerError) ==
    /\ \E g \in {GetToken(r)} :
       \E dl \in {StoreDelete(triggerError, g.tok)} :
       LET arg == CallArg("EndSession", r, NilToken, Untouched, <<>>, -1, NilReader, triggerError)
       IN  IF g.panicked \/ g.err # NilErr
           THEN /\ last' = [arg |-> arg,
                            ret |-> CallRet(NilToken, g.err, Untouched, <<>>, g.tried, <<>>,
                                            g.panicked)]
                /\ UNCHANGED <<entries, hist>>
           ELSE /\ last' = [arg |-> arg,
                            ret |-> CallRet(NilToken, IF dl.panicked THEN Panic ELSE dl.err,
                                            Untouched, <<StoreCall("Delete", g.tok)>>, g.tried,
                                            <<>>, dl.panicked)]
                /\ entries' = dl.entries
                /\ hist' = IF dl.panicked \/ dl.err # NilErr THEN hist
                           ELSE WriteBy("EndSession", g.tok, Untouched, FALSE)
    /\ UNCHANGED <<idLength, signingKeys, store>>
    /\ UNCHANGED <<codecVars, auxVars>>

(***************************************************************************)
(* The token functions called directly (TestNewTokenOfLength,              *)
(* TestNewTokenFromReader, TestVerifyToken): a caller constructs a token   *)
(* and verifies strings against a key.                                     *)
(***************************************************************************)
IdLengths == {MinIDLength - 1, MinIDLength, MinIDLength + 2, DefaultIDLength}

CallerKeys == {K1, EmptyKey}

\* a short read delivers half of what was asked
ShortAvail == MinIDLength \div 2

Readers == {CryptoReader(r) : r \in Seeds} \cup {errorReader, ShortReader(1, ShortAvail), NilReader}

Constructors == {"NewToken", "NewTokenOfLength", "NewRandTokenFromReader"}

NoCall == [fn |-> "none", key |-> <<>>, idLength |-> 0, reader |-> NilReader]

\* what a Get of the pool did: the connection handed out (0: none), the
\* error of conn.Err(), the connections PINGed and those whose PING failed,
\* whether Dial was called, and how long the connection handed out had been
\* idle (-1: it is new)
Got(conn, err, pinged, failed, dialed, idleFor) ==
    [conn |-> conn, err |-> err, pinged |-> pinged, failed |-> failed, dialed |-> dialed,
     idleFor |-> idleFor]

NoGet == Got(0, NilErr, {}, {}, FALSE, -1)

\* no pool constructed
NoPool == [testAfterIdle |-> 0, idle |-> <<>>, out |-> {}, numDials |-> 0, got |-> NoGet]

\* no RedisStore called directly
NoRedis == [duration |-> 0, ttl |-> <<>>, idle |-> <<>>]

\* the goroutines that call the Manager concurrently
Goroutines == {1, 2}

\* no call has started: idle goroutines, nobody inside keyIndexGenerator.Intn
NoProcs ==
    [g \in Goroutines |-> [pc |-> "idle", op |-> "none", keyidx |-> -1, raced |-> FALSE,
                           state |-> Untouched, exec |-> 0, ret |-> 0]]

IdleRng == [inside |-> {}, corrupt |-> FALSE]

\* the caller holds nothing of a token
NoHold == [str |-> <<>>, idstr |-> <<>>, len |-> 0, cap |-> 0, got |-> <<>>, sig |-> <<>>]

NoVerify ==
    [fn |-> "none", str |-> <<>>, key |-> <<>>, flipped |-> <<>>, tok |-> NilToken,
     err |-> NilErr]

\* the string with bit b of character p inverted
FlipBit(s, p, b) ==
    LET w == IF b = 0 THEN 1 ELSE Pow(2, 1) * (IF b = 1 THEN 1 ELSE Pow(2, b - 1))
        c == s[p]
    IN  [s EXCEPT ![p] = IF (c \div w) % 2 = 1 THEN c - w ELSE c + w]

CodecInit ==
    /\ cin \in [fn : Constructors, key : CallerKeys, idLength : IdLengths, reader : Readers]
    /\ cin.fn # "NewRandTokenFromReader" => ~cin.reader.isNil
    \* NewToken takes no length: the length it passes on is recorded
    /\ cin.fn = "NewToken" => cin.idLength = DefaultIDLength
    /\ cout = Result(NilToken, NilErr, 0)
    /\ cver = NoVerify
    /\ cpc = "start"
    /\ held = NoHold
    /\ procs = NoProcs
    /\ rng = IdleRng
    /\ redis = NoRedis
    /\ pool = NoPool
    \* no Manager
    /\ idLength = 0
    /\ signingKeys = <<>>
    /\ store = "none"
    /\ entries = NoEntries
    /\ hist = <<>>
    /\ last = NoCallYet

\* the caller constructs the token
Construct ==
    /\ cpc = "start"
    /\ cout' = IF cin.fn = "NewToken"
               THEN NewToken(cin.key, cin.reader)
               ELSE IF cin.fn = "NewTokenOfLength"
               THEN NewTokenOfLength(cin.key, cin.idLength, cin.reader)
               ELSE NewRandTokenFromReader(cin.idLength, cin.reader, cin.key)
    /\ cpc' = "constructed"
    /\ UNCHANGED <<cin, cver>>
    /\ UNCHANGED <<mgrVars, auxVars>>

\* the caller verifies the token's string under a key
Verify(key) ==
    /\ cpc = "constructed"
    /\ cout.err = NilErr
    /\ \E r \in {VerifyToken(String(cout.tok), key)} :
           cver' = [fn |-> "VerifyToken", str |-> String(cout.tok), key |-> key,
                    flipped |-> <<>>,
                    tok |-> r.tok, err |-> r.err]
    /\ cpc' = "verified"
    /\ UNCHANGED <<cin, cout>>
    /\ UNCHANGED <<mgrVars, auxVars>>

\* the caller verifies, under the token's key, its string with one bit inverted
VerifyFlipped(p, b) ==
    /\ cpc = "constructed"
    /\ cout.err = NilErr
    /\ p \in 1..Len(String(cout.tok))
    /\ \E s \in {FlipBit(String(cout.tok), p, b)} :
       \E r \in {VerifyToken(s, cin.key)} :
           cver' = [fn |-> "VerifyToken", str |-> s, key |-> cin.key, flipped |-> <<p, b>>,
                    tok |-> r.tok, err |-> r.err]
    /\ cpc' = "verified"
    /\ UNCHANGED <<cin, cout>>
    /\ UNCHANGED <<mgrVars, auxVars>>

\* the buffer lengths around the two length checks
KeptLengths ==
    {0, sha256Size, sha256Size + 1, sha256Size + MinIDLength - 1, sha256Size + MinIDLength}

\* the caller verifies, with either package's VerifyToken, the string of the
\* first n bytes of the token
VerifyTruncated(fn, n, key) ==
    /\ cpc = "constructed"
    /\ cout.err = NilErr
    /\ n <= Len(cout.tok.buf)
    /\ \E s \in {EncodeToString(SubSeq(cout.tok.buf, 1, n))} :
       \E r \in {IF fn = "VerifyToken" THEN VerifyToken(s, key)
                  ELSE VerifyRandToken(s, key)} :
           cver' = [fn |-> fn, str |-> s, key |-> key, flipped |-> <<>>,
                    tok |-> r.tok, err |-> r.err]
    /\ cpc' = "truncated"
    /\ UNCHANGED <<cin, cout>>
    /\ UNCHANGED <<mgrVars, auxVars>>

\* the ID lengths a holder of the key signs: below and at the minimum
SignedIDLengths == {1, MinIDLength - 1, MinIDLength}

\* a holder of the key signs the first n bytes of the token's ID and verifies
\* the string of the result with either package's VerifyToken
VerifyResigned(fn, n) ==
    /\ cpc = "constructed"
    /\ cout.err = NilErr
    /\ \E s \in {EncodeToString(Sign(SubSeq(ID(cout.tok), 1, n), cin.key))} :
       \E r \in {IF fn = "VerifyToken" THEN VerifyToken(s, cin.key)
                  ELSE VerifyRandToken(s, cin.key)} :
           cver' = [fn |-> fn, str |-> s, key |-> cin.key, flipped |-> <<>>,
                    tok |-> r.tok, err |-> r.err]
    /\ cpc' = "resigned"
    /\ UNCHANGED <<cin, cout>>
    /\ UNCHANGED <<mgrVars, auxVars>>

MaxStringLen == 4 * ((DefaultIDLength + sha256Size + 2) \div 3)

CodecNext ==
    \/ Construct
    \/ \E key \in {K1, K2, EmptyKey} : Verify(key)
    \/ \E p \in 1..MaxStringLen, b \in 0..7 : VerifyFlipped(p, b)
    \/ \E fn \in {"VerifyToken", "rand_token.VerifyToken"}, n \in KeptLengths,
         key \in CallerKeys : VerifyTruncated(fn, n, key)
    \/ \E fn \in {"VerifyToken", "rand_token.VerifyToken"}, n \in SignedIDLengths :
         VerifyResigned(fn, n)

\* the key of the token whose session the history follows: a key of the ring,
\* or K1 for a ring that can sign nothing
FocusKeys ==
    LET ringKeys == {signingKeys[i] : i \in DOMAIN signingKeys} \cap {K1, K2}
    IN  IF ringKeys = {} THEN {K1} ELSE ringKeys

Init ==
    /\ \E m \in Configs :
           idLength = m.idLength /\ signingKeys = m.signingKeys /\ store = m.store
    /\ entries = NoEntries
    /\ \E k \in FocusKeys :
           hist = [focus |-> TokenTable[<<1, PresentedLen, k>>], ended |-> FALSE,
                   since |-> "none", state |-> Untouched]
    /\ last = NoCallYet
    \* no caller of the token functions
    /\ cin = NoCall
    /\ cout = Result(NilToken, NilErr, 0)
    /\ cver = NoVerify
    /\ cpc = "idle"
    /\ held = NoHold
    /\ procs = NoProcs
    /\ rng = IdleRng
    /\ redis = NoRedis
    /\ pool = NoPool

Next ==
    \/ \E w \in ResponseSinks, s \in States, keyidx \in KeyIndexes,
         rd \in ManagerReaders, te \in BOOLEAN : BeginSession(w, s, keyidx, rd, te)
    \/ \E r \in Requests : GetTokenCall(r)
    \/ \E r \in Requests, te \in BOOLEAN : GetState(r, te)
    \/ \E t \in PresentedTokens, s \in States, te \in BOOLEAN : UpdateState(t, s, te)
    \/ \E r \in Requests, te \in BOOLEAN : EndSession(r, te)

Spec == Init /\ [][Next]_vars

SpecCodec == CodecInit /\ [][CodecNext]_vars

(***************************************************************************)
(* The methods of a token, called by the code that constructed it.         *)
(* store.go: String() and ID(), the ID an object with Len() and String().  *)
(* rand_token.go: String() and ID(), the ID the slice t.buf[:len-32] over  *)
(* the token's own array, which has the signature in its capacity.         *)
(***************************************************************************)
\* the caller reads String() and ID() and keeps what they returned
Hold ==
    /\ cpc = "constructed"
    /\ cout.err = NilErr
    /\ held' = [str |-> String(cout.tok), idstr |-> IDString(cout.tok),
                len |-> IDLen(cout.tok),
                cap |-> IF cin.fn = "NewRandTokenFromReader" THEN Len(cout.tok.buf) ELSE 0,
                got |-> <<>>, sig |-> <<>>]
    /\ cpc' = "held"
    /\ UNCHANGED <<cin, cout, cver>>
    /\ UNCHANGED <<mgrVars, goVars, redis, pool>>

\* String(), ID().String() or ID().Len(), on either kind of token
Accessor(op) ==
    /\ cpc = "held"
    /\ held' = [held EXCEPT !.got = CASE op = "String" -> String(cout.tok)
                                      [] op = "ID.String" -> IDString(cout.tok)
                                      [] OTHER -> <<IDLen(cout.tok)>>]
    /\ UNCHANGED <<cin, cout, cver, cpc>>
    /\ UNCHANGED <<mgrVars, goVars, redis, pool>>

\* id := t.ID(); id[i] = b, on a RandToken (i from 1 here)
IDWrite(i, b) ==
    /\ cpc = "held"
    /\ held.cap > 0
    /\ i \in 1..held.len
    /\ cout' = [cout EXCEPT !.tok.buf[i] = b]
    /\ UNCHANGED <<cin, cver, cpc, held>>
    /\ UNCHANGED <<mgrVars, goVars, redis, pool>>

\* append(t.ID(), b) on a RandToken: len < cap, so the byte goes into the
\* token's array, over the first signature byte
IDAppend(b) ==
    /\ cpc = "held"
    /\ held.cap > held.len
    /\ cout' = [cout EXCEPT !.tok.buf[held.len + 1] = b]
    /\ UNCHANGED <<cin, cver, cpc, held>>
    /\ UNCHANGED <<mgrVars, goVars, redis, pool>>

\* id := t.ID(); id[len(id):cap(id)] on a RandToken
IDReslice ==
    /\ cpc = "held"
    /\ held.cap > held.len
    /\ held' = [held EXCEPT !.sig = SubSeq(cout.tok.buf, held.len + 1, held.cap)]
    /\ UNCHANGED <<cin, cout, cver, cpc>>
    /\ UNCHANGED <<mgrVars, goVars, redis, pool>>

WrittenBytes == {0, 255}

TokenNext ==
    \/ Construct
    \/ Hold
    \/ \E op \in {"String", "ID.String", "ID.Len"} : Accessor(op)
    \/ \E i \in {1, MinIDLength}, b \in WrittenBytes : IDWrite(i, b)
    \/ \E b \in WrittenBytes : IDAppend(b)
    \/ IDReslice

SpecToken == CodecInit /\ [][TokenNext]_vars

(***************************************************************************)
(* Concurrent calls on one Manager over a RedisStore: two goroutines, each *)
(* in a BeginSession or in an UpdateState with the same token. The         *)
(* package-level keyIndexGenerator is a *rand.Rand made by rand.New, used   *)
(* without a lock; two calls inside Intn at once are a data race, whose    *)
(* outcome is any of: an index of the ring, a panic inside the generator,  *)
(* a generator state that later calls find corrupt. A Save is executed by  *)
(* the Redis server at one moment and its reply read by the caller at a    *)
(* later one.                                                              *)
(***************************************************************************)
InitConcurrent ==
    /\ idLength = MinIDLength
    /\ signingKeys = <<K1, K2>>
    /\ store = "RedisStore"
    /\ entries = NoEntries
    /\ hist = [focus |-> TokenTable[<<1, MinIDLength, K1>>], ended |-> FALSE,
               since |-> "none", state |-> Untouched]
    /\ last = NoCallYet
    /\ cin = NoCall
    /\ cout = Result(NilToken, NilErr, 0)
    /\ cver = NoVerify
    /\ cpc = "idle"
    /\ held = NoHold
    /\ procs = NoProcs
    /\ rng = IdleRng
    /\ redis = NoRedis
    /\ pool = NoPool

\* goroutine g, in BeginSession, enters keyIndexGenerator.Intn; no lock is
\* taken: every call already inside now races with it
IntnEnter(g) ==
    /\ procs[g].pc = "idle"
    /\ procs' = [h \in Goroutines |->
                    IF h = g THEN [procs[g] EXCEPT !.pc = "inIntn", !.op = "BeginSession",
                                                   !.raced = rng.inside # {}]
                    ELSE IF h \in rng.inside THEN [procs[h] EXCEPT !.raced = TRUE]
                    ELSE procs[h]]
    /\ rng' = [rng EXCEPT !.inside = @ \cup {g}]
    /\ UNCHANGED <<mgrVars, codecVars, held, redis, pool>>

\* Intn ends for goroutine g. Alone on a sound generator it returns an index
\* of the ring; after a race, or on a corrupt generator, it returns one or
\* panics (keyidx -1), and may leave the generator corrupt
IntnLeave(g, keyidx, panics, corrupts) ==
    /\ procs[g].pc = "inIntn"
    /\ keyidx \in KeyIndexes
    /\ (~procs[g].raced /\ ~rng.corrupt) => (~panics /\ ~corrupts)
    /\ procs' = [procs EXCEPT ![g].pc = "selected",
                              ![g].keyidx = IF panics THEN -1 ELSE keyidx]
    /\ rng' = [inside |-> rng.inside \ {g}, corrupt |-> rng.corrupt \/ corrupts]
    /\ UNCHANGED <<mgrVars, codecVars, held, redis, pool>>

\* the rest of BeginSession in goroutine g
BeginFinish(g, w, sessionState, randReader, triggerError) ==
    /\ procs[g].pc = "selected"
    /\ IF procs[g].keyidx < 0
       THEN /\ last' = [arg |-> CallArg("BeginSession", NoRequest, NilToken, sessionState, w,
                                        -1, randReader, triggerError),
                        ret |-> CallRet(NilToken, Panic, sessionState, <<>>, 0, w, TRUE)]
            /\ UNCHANGED <<idLength, signingKeys, store, entries, hist>>
       ELSE BeginSessionFrom(w, sessionState, procs[g].keyidx, randReader, triggerError)
    /\ procs' = [procs EXCEPT ![g].pc = "done"]
    /\ UNCHANGED <<rng, codecVars, held, redis, pool>>

\* a SETEX that the server drops when the key exists
UpdateExecKeeping(g, sessionState) ==
    /\ procs[g].pc = "idle"
    /\ \E sv \in {StoreSave(FALSE, hist.focus, sessionState)} :
           /\ entries' = IF StoreKey(hist.focus) \in DOMAIN entries THEN entries
                         ELSE sv.entries
           /\ hist' = hist
    /\ procs' = [procs EXCEPT ![g].pc = "saving", ![g].op = "UpdateState",
                              ![g].state = sessionState,
                              ![g].exec = 1 + Cardinality({h \in Goroutines :
                                                              procs[h].exec > 0})]
    /\ UNCHANGED <<idLength, signingKeys, store, last, rng, codecVars, held, redis, pool>>

\* goroutine g calls UpdateState(token, sessionState) with the token the
\* history follows; the Redis server executes its SETEX
UpdateExec(g, sessionState) ==
    /\ procs[g].pc = "idle"
    /\ \E sv \in {StoreSave(FALSE, hist.focus, sessionState)} :
           /\ entries' = sv.entries
           /\ hist' = WriteBy("UpdateState", hist.focus, sessionState,
                              StoreKey(hist.focus) \in DOMAIN entries)
    /\ procs' = [procs EXCEPT ![g].pc = "saving", ![g].op = "UpdateState",
                              ![g].state = sessionState,
                              ![g].exec = 1 + Cardinality({h \in Goroutines :
                                                              procs[h].exec > 0})]
    /\ UNCHANGED <<idLength, signingKeys, store, last, rng, codecVars, held, redis, pool>>

\* goroutine g reads the reply of its SETEX: its UpdateState returns
UpdateReturn(g) ==
    /\ procs[g].pc = "saving"
    /\ last' = [arg |-> CallArg("UpdateState", NoRequest, hist.focus, procs[g].state, <<>>,
                                -1, NilReader, FALSE),
                ret |-> CallRet(NilToken, NilErr, procs[g].state,
                                <<StoreCall("Save", hist.focus)>>, 0, <<>>, FALSE)]
    /\ procs' = [procs EXCEPT ![g].pc = "done",
                              ![g].ret = 1 + Cardinality({h \in Goroutines :
                                                             procs[h].ret > 0})]
    /\ UNCHANGED <<idLength, signingKeys, store, entries, hist, rng, codecVars, held,
                   redis, pool>>

ConcurrentNext ==
    \/ \E g \in Goroutines : IntnEnter(g)
    \/ \E g \in Goroutines, keyidx \in KeyIndexes, panics \in BOOLEAN, corrupts \in BOOLEAN :
          IntnLeave(g, keyidx, panics, corrupts)
    \/ \E g \in Goroutines, w \in ResponseSinks, s \in States, rd \in ManagerReaders,
         te \in BOOLEAN : BeginFinish(g, w, s, rd, te)
    \/ \E g \in Goroutines, s \in States : UpdateExec(g, s)
    \/ \E g \in Goroutines : UpdateReturn(g)

SpecConcurrent == InitConcurrent /\ [][ConcurrentNext]_vars

(***************************************************************************)
(* A RedisStore called directly, while time passes. Durations are in       *)
(* milliseconds, the server's time-to-live in seconds.                     *)
(***************************************************************************)
\* SessionDuration: one second, two seconds, a second and a half, 10^6 seconds
Durations == {1000, 2000, 1500, 1000000000}

RedisTokens == {TokenTable[<<r, MinIDLength, K1>>] : r \in Seeds}

InitRedis ==
    /\ redis \in [duration : Durations, ttl : {<<>>}, idle : {<<>>}]
    /\ pool = NoPool
    /\ store = "RedisStore"
    /\ entries = NoEntries
    /\ last = NoCallYet
    /\ idLength = 0
    /\ signingKeys = <<>>
    /\ hist = <<>>
    /\ cin = NoCall
    /\ cout = Result(NilToken, NilErr, 0)
    /\ cver = NoVerify
    /\ cpc = "idle"
    /\ held = NoHold
    /\ procs = NoProcs
    /\ rng = IdleRng

\* rs.Save(token, sessionState): SETEX key seconds value
SaveCall(token, sessionState, triggerError) ==
    /\ \E text \in {FormatSeconds(redis.duration)} :
       \E sv \in {RedisSave(triggerError, token, sessionState)} :
           IF sv.err = NilErr /\ ~IsInteger(text)
           THEN /\ last' = [arg |-> CallArg("Save", NoRequest, token, sessionState, <<>>, -1,
                                            NilReader, triggerError),
                            ret |-> CallRet(NilToken, "error executing SETEX: " \o ErrNotInteger,
                                            sessionState, <<>>, 0, <<>>, FALSE)]
                /\ UNCHANGED <<entries, redis>>
           ELSE /\ last' = [arg |-> CallArg("Save", NoRequest, token, sessionState, <<>>, -1,
                                            NilReader, triggerError),
                            ret |-> CallRet(NilToken, sv.err, sessionState, <<>>, 0, <<>>,
                                            FALSE)]
                /\ entries' = sv.entries
                /\ redis' = IF sv.err # NilErr THEN redis
                            ELSE [redis EXCEPT
                                     !.ttl = Put(@, getRedisKey(token), ParseInt(text)),
                                     !.idle = Put(@, getRedisKey(token), 0)]
    /\ UNCHANGED <<idLength, signingKeys, store, hist, codecVars, held, goVars, pool>>

\* rs.Get(token, &sessionState): GET key and EXPIRE key seconds in one
\* pipeline; only the reply of GET is read
GetCall(token, triggerError) ==
    /\ \E text \in {FormatSeconds(redis.duration)} :
       \E gt \in {RedisGet(triggerError, token)} :
           /\ last' = [arg |-> CallArg("Get", NoRequest, token, Untouched, <<>>, -1,
                                       NilReader, triggerError),
                       ret |-> CallRet(NilToken, gt.err, gt.state, <<>>, 0, <<>>, FALSE)]
           /\ redis' = IF gt.err = NilErr /\ IsInteger(text)
                       THEN [redis EXCEPT
                                !.ttl = Put(@, getRedisKey(token), ParseInt(text)),
                                !.idle = Put(@, getRedisKey(token), 0)]
                       ELSE redis
    /\ UNCHANGED <<idLength, signingKeys, store, entries, hist, codecVars, held, goVars, pool>>

\* one second passes on the server: keys in their last second expire
Tick ==
    /\ DOMAIN entries # {}
    /\ \E live \in {{k \in DOMAIN entries : redis.ttl[k] > 1}} :
           /\ entries' = [k \in live |-> entries[k]]
           /\ redis' = [redis EXCEPT !.ttl = [k \in live |-> redis.ttl[k] - 1],
                                     !.idle = [k \in live |-> redis.idle[k] + 1]]
    /\ UNCHANGED <<idLength, signingKeys, store, hist, last, codecVars, held, goVars, pool>>

RedisNext ==
    \/ \E t \in RedisTokens, s \in States \cup {FuncState}, te \in BOOLEAN : SaveCall(t, s, te)
    \/ \E t \in RedisTokens, te \in BOOLEAN : GetCall(t, te)
    \/ Tick

SpecRedis == InitRedis /\ [][RedisNext]_vars

(***************************************************************************)
(* redis.go: NewRedisPool. Times are in minutes. The pool is redigo's:     *)
(* Get closes the idle connections older than IdleTimeout, then takes idle *)
(* connections from the front, handing out the first for which             *)
(* TestOnBorrow returns nil and closing the others, and dials when none is *)
(* left; Close of a connection without an error puts it at the front of    *)
(* the idle list. MaxIdle (128) and MaxActive (512) are above the number   *)
(* of connections of the model.                                            *)
(***************************************************************************)
\* IdleTimeout: time.Minute * 10
IdleTimeout == 10

\* the values of testAfterIdle: 0, one minute, README's time.Minute*5
TestAfterIdles == {0, 1, 5}

\* the model dials at most MaxDials connections and keeps at most MaxOut out
MaxDials == 3

MaxOut == 2

\* a health test that PINGs only connections idle for longer than testAfterIdle
TestOnBorrowAfter(c, idleFor, testAfterIdle) ==
    IF idleFor <= testAfterIdle THEN [pinged |-> FALSE, err |-> NilErr]
    ELSE [pinged |-> TRUE, err |-> IF c.alive THEN NilErr ELSE ErrConn]

\* TestOnBorrow(c, t): idleFor is time.Since(t); PING fails on a connection
\* the server or the network has dropped
TestOnBorrow(c, idleFor, testAfterIdle) ==
    IF idleFor < testAfterIdle THEN [pinged |-> FALSE, err |-> NilErr]
    ELSE [pinged |-> TRUE, err |-> IF c.alive THEN NilErr ELSE ErrConn]

\* the pool's loop over the idle list: the first connection that passes
\* TestOnBorrow, and the connections tested and closed before it
RECURSIVE Borrow(_, _, _, _)
Borrow(idle, testAfterIdle, pinged, failed) ==
    IF idle = <<>>
    THEN [found |-> FALSE, conn |-> 0, idleFor |-> -1, pinged |-> pinged, failed |-> failed,
          rest |-> <<>>]
    ELSE LET c == Head(idle)
             tst == TestOnBorrow(c, c.t, testAfterIdle)
             seen == IF tst.pinged THEN pinged \cup {c.id} ELSE pinged
         IN  IF tst.err = NilErr
             THEN [found |-> TRUE, conn |-> c.id, idleFor |-> c.t, pinged |-> seen,
                   failed |-> failed, rest |-> Tail(idle)]
             ELSE Borrow(Tail(idle), testAfterIdle, seen, failed \cup {c.id})

\* NewRedisPool(addr, testAfterIdle)
InitPool ==
    /\ pool \in [testAfterIdle : TestAfterIdles, idle : {<<>>}, out : {{}}, numDials : {0},
                 got : {NoGet}]
    /\ redis = NoRedis
    /\ store = "none"
    /\ entries = NoEntries
    /\ last = NoCallYet
    /\ idLength = 0
    /\ signingKeys = <<>>
    /\ hist = <<>>
    /\ cin = NoCall
    /\ cout = Result(NilToken, NilErr, 0)
    /\ cver = NoVerify
    /\ cpc = "idle"
    /\ held = NoHold
    /\ procs = NoProcs
    /\ rng = IdleRng

\* conn := pool.Get(); dials tells whether Dial, if called, connects
PoolGet(dials) ==
    /\ Cardinality(pool.out) < MaxOut
    /\ pool.numDials < MaxDials
    /\ \E fresh \in {SelectSeq(pool.idle, LAMBDA c : c.t < IdleTimeout)} :
       \E b \in {Borrow(fresh, pool.testAfterIdle, {}, {})} :
           pool' = IF b.found
                   THEN [pool EXCEPT !.idle = b.rest,
                                     !.out = @ \cup {b.conn},
                                     !.got = Got(b.conn, NilErr, b.pinged, b.failed, FALSE,
                                                 b.idleFor)]
                   ELSE IF dials
                   THEN [pool EXCEPT !.idle = <<>>,
                                     !.numDials = @ + 1,
                                     !.out = @ \cup {pool.numDials + 1},
                                     !.got = Got(pool.numDials + 1, NilErr, b.pinged, b.failed,
                                                 TRUE, -1)]
                   ELSE [pool EXCEPT !.idle = <<>>,
                                     !.numDials = @ + 1,
                                     !.got = Got(0, ErrConn, b.pinged, b.failed, TRUE, -1)]
    /\ UNCHANGED <<mgrVars, codecVars, held, goVars, redis>>

\* conn.Close() of a connection handed out and not used: back to the pool
PoolClose(c) ==
    /\ c \in pool.out
    /\ pool' = [pool EXCEPT !.out = @ \ {c},
                            !.idle = <<[id |-> c, t |-> 0, alive |-> TRUE]>> \o @]
    /\ UNCHANGED <<mgrVars, codecVars, held, goVars, redis>>

\* the server or the network drops an idle connection
Drop(i) ==
    /\ i \in DOMAIN pool.idle
    /\ pool.idle[i].alive
    /\ pool' = [pool EXCEPT !.idle[i].alive = FALSE]
    /\ UNCHANGED <<mgrVars, codecVars, held, goVars, redis>>

\* a minute passes
Minute ==
    /\ pool.idle # <<>>
    /\ \E i \in DOMAIN pool.idle : pool.idle[i].t < IdleTimeout
    /\ pool' = [pool EXCEPT
                   !.idle = [i \in DOMAIN @ |->
                               [@[i] EXCEPT !.t = IF @ < IdleTimeout THEN @ + 1 ELSE @]]]
    /\ UNCHANGED <<mgrVars, codecVars, held, goVars, redis>>

PoolNext ==
    \/ \E dials \in BOOLEAN : PoolGet(dials)
    \/ \E c \in 1..MaxDials : PoolClose(c)
    \/ \E i \in 1..MaxOut : Drop(i)
    \/ Minute

SpecPool == InitPool /\ [][PoolNext]_vars

(***************************************************************************)
(* Properties of the token functions, under SpecCodec                      *)
(***************************************************************************)
\* the random source reads without an error
Working(rd) == ~rd.isNil /\ ~rd.fails

C5_FlippedBitRejected ==
    (cpc = "verified" /\ cver.flipped # <<>> /\ cout.n = cin.idLength) => cver.err # NilErr

\* C9, as stated: issuance returns an error whenever the random source supplied
\* fewer than idLength bytes
C9_ShortReadFails ==
    (cpc # "start" /\ cout.n < cin.idLength) => cout.err # NilErr

\* C10: length enforcement. Issuance with an ID length below 16 fails; issuance
\* with an ID length of 16, a non-empty key and a working random source
\* succeeds
C10_LengthEnforced ==
    cpc # "start"
    => /\ cin.idLength < MinIDLength => (cout.err # NilErr /\ cout.tok.isNil)
       /\ (cin.idLength = MinIDLength /\ Len(cin.key) > 0 /\ Working(cin.reader))
          => (cout.err = NilErr /\ ~cout.tok.isNil /\ IDLen(cout.tok) = MinIDLength)

\* a token with an ID of exactly 16 bytes has been issued
C10_Witness ==
    /\ cpc = "constructed"
    /\ cin.fn = "NewTokenOfLength"
    /\ cin.idLength = MinIDLength
    /\ cin.key = K1
    /\ cin.reader = CryptoReader(1)
    /\ cout.err = NilErr
    /\ IDLen(cout.tok) = MinIDLength

(***************************************************************************)
(* Properties of the Manager, under Spec                                   *)
(***************************************************************************)
\* the value GetToken takes from a request
Candidate(r) == IF Len(r.header) = 0 THEN r.query ELSE r.header

\* the request carries the token's Bearer value, in the header or in the query
Presents(r, t) == Candidate(r) = BearerValue(String(t))

\* the token was signed with a key of the Manager's ring
SignedByRing(t) ==
    \E i \in DOMAIN signingKeys :
        Len(signingKeys[i]) > 0 /\ t.buf = Sign(ID(t), signingKeys[i])

\* the errors GetToken returns when no key of the ring verifies the token
VerificationErrors ==
    {"error verifying session token: " \o e :
        e \in {ErrZeroKey, ErrBase64, ErrTooShort, ErrModified}}

\* C1, as stated: once EndSession has succeeded for a token, every later
\* GetState presenting that token fails, whatever calls came in between
C1_EndedTokenFails ==
    (/\ hist.ended
     /\ last.arg.op = "GetState"
     /\ Presents(last.arg.req, hist.focus))
    => last.ret.err # NilErr

C6_RingKeyAccepted ==
    \A t \in PresentedTokens :
        (/\ last.arg.op = "GetToken"
         /\ Presents(last.arg.req, t)
         /\ SignedByRing(t))
        => /\ last.ret.err = NilErr
           /\ last.ret.tok = t
           /\ ~last.ret.panicked

\* a token signed with the second key of a ring has been accepted, after the
\* first key failed
C6_Witness ==
    /\ signingKeys = <<K1, K2>>
    /\ last.arg.op = "GetToken"
    /\ Presents(last.arg.req, TokenTable[<<1, PresentedLen, K2>>])
    /\ last.ret.err = NilErr
    /\ last.ret.tok = TokenTable[<<1, PresentedLen, K2>>]
    /\ last.ret.tried = 2

\* C7, as stated: fallback exhaustion. GetToken rejects a token signed with a
\* key that is not in the ring with a verification error, after VerifyToken
\* was tried with every key of the ring
C7_ForeignKeyRejected ==
    \A t \in PresentedTokens :
        (/\ last.arg.op = "GetToken"
         /\ Presents(last.arg.req, t)
         /\ ~SignedByRing(t))
        => /\ last.ret.err \in VerificationErrors
           /\ last.ret.tok.isNil
           /\ last.ret.tried = Len(signingKeys)

\* issuance inside BeginSession fails: NewTokenOfLength is called with a
\* failing random source, with an empty key, or with an ID length below 16
IssuanceFails ==
    /\ last.arg.op = "BeginSession"
    /\ last.arg.keyidx >= 0
    /\ \/ last.arg.randReader.fails
       \/ Len(signingKeys[last.arg.keyidx + 1]) = 0
       \/ idLength < MinIDLength

\* C8: whenever token issuance fails inside BeginSession, BeginSession returns
\* an error and no token, makes no Store call and adds no Authorization value
\* to the response
C8_FailedIssuanceLeavesNoTrace ==
    IssuanceFails
    => /\ last.ret.err # NilErr
       /\ last.ret.tok.isNil
       /\ last.ret.calls = <<>>
       /\ last.ret.w = last.arg.w
       /\ ~last.ret.panicked

\* BeginSession has drawn the empty key of a ring, with a working random source
\* and a Store that does not fail
C8_Witness ==
    /\ last.arg.op = "BeginSession"
    /\ signingKeys = <<EmptyKey, K1>>
    /\ last.arg.keyidx = 0
    /\ ~last.arg.randReader.fails
    /\ ~last.arg.triggerError
    /\ last.ret.err = "error generating new token: " \o ErrZeroKey
    /\ last.ret.calls = <<>>

\* the Store holds the state s under the ID of token t
Holds(t, s) ==
    /\ StoreKey(t) \in DOMAIN entries
    /\ GobDecode(entries[StoreKey(t)]) = s

\* BeginSession has returned a token and a nil error
BeginSucceeded ==
    /\ last.arg.op = "BeginSession"
    /\ last.ret.err = NilErr
    /\ ~last.ret.panicked

\* C11, as stated: after every successful BeginSession(w, state), whatever
\* Authorization values w already held, the Authorization header read from w
\* is "Bearer " followed by String() of the returned token, and the Store
\* holds state under the token's ID
C11_AsStated ==
    BeginSucceeded
    => /\ HeaderGet(last.ret.w) = BearerValue(String(last.ret.tok))
       /\ Holds(last.ret.tok, last.arg.state)

\* C11, amended: after every successful BeginSession(w, state), "Bearer "
\* followed by String() of the returned token is the last Authorization value
\* of w, behind the values w held before, which are kept; it is the value read
\* from w when w held none before; and the Store holds state under the
\* token's ID
C11_HeaderAdded ==
    BeginSucceeded
    => /\ ~last.ret.tok.isNil
       /\ last.ret.w = last.arg.w \o <<BearerValue(String(last.ret.tok))>>
       /\ last.arg.w = <<>> => HeaderGet(last.ret.w) = BearerValue(String(last.ret.tok))
       /\ Holds(last.ret.tok, last.arg.state)

\* BeginSession has succeeded on a response that already held an Authorization
\* value: the value read from it is still the earlier one
C11_Witness ==
    /\ BeginSucceeded
    /\ last.arg.w = <<BasicValue>>
    /\ Len(last.ret.w) = 2
    /\ HeaderGet(last.ret.w) = BasicValue
    /\ last.ret.w[2] = BearerValue(String(last.ret.tok))
    /\ Holds(last.ret.tok, last.arg.state)

\* the error a Store method returns when it fails by triggerError: the
\* mockStore's test error, or RedisStore's report of the failed command
StoreFailure(cmd) ==
    IF store = "RedisStore" THEN "error executing " \o cmd \o ": " \o ErrConn
    ELSE "test error"

\* inside BeginSession the token was issued and the Store's Save failed
SaveFailed ==
    /\ last.arg.op = "BeginSession"
    /\ last.arg.keyidx >= 0
    /\ ~IssuanceFails
    /\ last.arg.triggerError

\* C12: when Store.Save fails inside BeginSession, BeginSession returns a nil
\* token and the Save's error, and adds no Authorization value to the response
C12_SaveFailureSurfaced ==
    SaveFailed
    => /\ last.ret.tok.isNil
       /\ last.ret.err = "error saving session state: " \o StoreFailure("SETEX")
       /\ ~last.ret.panicked
       /\ Len(last.ret.calls) = 1
       /\ last.ret.calls[1].op = "Save"
       /\ last.ret.w = last.arg.w

\* a Save has failed for a response that held an Authorization value: it holds
\* that value and no other
C12_Witness ==
    /\ SaveFailed
    /\ last.arg.w = <<BasicValue>>
    /\ last.ret.w = <<BasicValue>>
    /\ last.ret.tok.isNil
    /\ last.ret.err # NilErr
    /\ last.ret.calls # <<>>

(***************************************************************************)
(* GetToken on the values clients can send: each Authorization header      *)
(* value below with each auth query value below.                           *)
(***************************************************************************)
\* "xyz"
Xyz == <<120, 121, 122>>

\* "bearer xyz"
LowerBearerValue == <<98, 101, 97, 114, 101, 114, 32>> \o Xyz

\* no header; "Bearer"; "Bearerxyz"; "bearer xyz"; "Basic xyz"; "Bearer ";
\* a token signed with K1; that token modified
ClientHeaders(len) ==
    {<<>>, authTypeBearer, authTypeBearer \o Xyz, LowerBearerValue, BasicValue,
     BearerValue(<<>>),
     BearerValue(String(TokenTable[<<1, len, K1>>])),
     BearerValue(modToken(String(TokenTable[<<1, len, K1>>])))}

\* no auth parameter; a token signed with K1; "Basic xyz"; "Bearer"
ClientQueries(len) ==
    {<<>>, BearerValue(String(TokenTable[<<1, len, K1>>])), BasicValue, authTypeBearer}

ClientRequests == {Request(h, q) : h \in ClientHeaders(PresentedLen), q \in ClientQueries(PresentedLen)}

RequestsNext == \E r \in ClientRequests : GetTokenCall(r)

SpecRequests == Init /\ [][RequestsNext]_vars

(***************************************************************************)
(* Properties of GetToken, under SpecRequests                              *)
(***************************************************************************)
\* "Bearer ": the keyword and one space
BearerPrefix == BearerValue(<<>>)

\* C13, as stated: for every non-empty candidate value that does not begin
\* with "Bearer " (the keyword and one space), GetToken returns
\* ErrUnsupportedTokenType and attempts no verification
C13_NonBearerUnsupported ==
    (/\ last.arg.op = "GetToken"
     /\ Candidate(last.arg.req) # <<>>
     /\ ~HasPrefix(Candidate(last.arg.req), BearerPrefix))
    => /\ last.ret.err = ErrUnsupportedTokenType
       /\ last.ret.tried = 0
       /\ ~last.ret.panicked

\* the Bearer values of the tokens a key of the ring verifies
RingBearerValues == {BearerValue(String(t)) : t \in {u \in PresentedTokens : SignedByRing(u)}}

\* C14: GetToken takes its candidate from the Authorization header and
\* consults the auth query parameter only when the header yields no value: it
\* returns ErrNoToken exactly when both are empty; a token in the header is
\* resolved whatever the query holds; a token in the query is resolved when
\* there is no header; and a non-empty header that fails the prefix check or
\* verification yields no token, also when the query holds a valid one
C14_HeaderBeforeQuery ==
    last.arg.op = "GetToken"
    => /\ last.ret.err = ErrNoToken
          <=> (last.arg.req.header = <<>> /\ last.arg.req.query = <<>>)
       /\ \A t \in PresentedTokens :
              SignedByRing(t)
              => /\ last.arg.req.header = BearerValue(String(t))
                    => (last.ret.err = NilErr /\ last.ret.tok = t)
                 /\ (last.arg.req.header = <<>> /\ last.arg.req.query = BearerValue(String(t)))
                    => (last.ret.err = NilErr /\ last.ret.tok = t)
                 /\ (/\ last.arg.req.header # <<>>
                     /\ last.arg.req.header \notin RingBearerValues
                     /\ last.arg.req.query = BearerValue(String(t)))
                    => (last.ret.tok.isNil /\ last.ret.err # NilErr)

\* a header of another scheme was refused although the query held a token
\* that the ring verifies
C14_Witness ==
    /\ last.arg.op = "GetToken"
    /\ last.arg.req.header = BasicValue
    /\ last.arg.req.query \in RingBearerValues
    /\ last.ret.err = ErrUnsupportedTokenType
    /\ last.ret.tok.isNil

\* C15: GetState with a validly signed token returns a nil token and a non-nil
\* error, the output state untouched, whenever the Store's Get reports an
\* error, in particular when the Store holds no entry for the token's ID; the
\* RedisStore's Get reports redis.ErrNil for an absent key
C15_StoreErrorSurfaced ==
    \A t \in PresentedTokens :
        (/\ last.arg.op = "GetState"
         /\ Presents(last.arg.req, t)
         /\ SignedByRing(t)
         /\ (last.arg.triggerError \/ StoreKey(t) \notin DOMAIN entries))
        => /\ last.ret.tok.isNil
           /\ ~last.ret.panicked
           /\ last.ret.state = Untouched
           /\ last.ret.calls = <<StoreCall("Get", t)>>
           /\ last.ret.err = "error getting session state: " \o
                  (IF last.arg.triggerError THEN StoreFailure("GET")
                   ELSE IF store = "RedisStore" THEN "error executing GET: " \o ErrNil
                   ELSE "no data found")

\* over a RedisStore, a session was begun and ended, and GetState with its
\* token then failed on the absent key
C15_Witness ==
    /\ store = "RedisStore"
    /\ hist.ended
    /\ last.arg.op = "GetState"
    /\ Presents(last.arg.req, hist.focus)
    /\ ~last.arg.triggerError
    /\ getRedisKey(hist.focus) \notin DOMAIN entries
    /\ last.ret.tok.isNil
    /\ last.ret.err = "error getting session state: error executing GET: redigo: nil returned"

\* C16: EndSession(request) first resolves the token with GetToken. If
\* GetToken fails, EndSession ends as GetToken did, makes no Store call and
\* leaves the Store as it was. If GetToken returns a token, EndSession calls
\* the Store's Delete for it, once, and returns what Delete returns: its error
\* with the Store as it was, or nil with no entry left under the token's key
C16_EndSessionResolvesThenDeletes ==
    /\ [](last.arg.op = "EndSession"
          => LET g == GetToken(last.arg.req)
             IN  /\ (g.panicked \/ g.err # NilErr)
                    => /\ last.ret.err = g.err
                       /\ last.ret.panicked = g.panicked
                       /\ last.ret.calls = <<>>
                 /\ (~g.panicked /\ g.err = NilErr)
                    => last.ret.calls = <<StoreCall("Delete", g.tok)>>
                 /\ (~g.panicked /\ g.err = NilErr /\ ~g.tok.isNil)
                    => /\ ~last.ret.panicked
                       /\ last.ret.err = IF last.arg.triggerError THEN StoreFailure("DEL")
                                         ELSE NilErr
                       /\ ~last.arg.triggerError => StoreKey(g.tok) \notin DOMAIN entries)
    /\ [][(/\ last'.arg.op = "EndSession"
           /\ (last'.ret.calls = <<>> \/ last'.ret.err # NilErr))
          => entries' = entries]_vars

\* EndSession has deleted the state of a session that was begun
C16_Witness ==
    /\ last.arg.op = "EndSession"
    /\ Presents(last.arg.req, hist.focus)
    /\ hist.ended
    /\ last.ret.err = NilErr
    /\ last.ret.calls = <<StoreCall("Delete", hist.focus)>>
    /\ StoreKey(hist.focus) \notin DOMAIN entries
    /\ entries # NoEntries

\* C17: for any session ID, the Store gets an entry for an ID that had none
\* only in a step of a successful BeginSession; no other Manager operation
\* turns an ID without a Store entry into one with a Store entry
C17_OnlyBeginSessionActivates ==
    [][\A k \in DOMAIN entries' :
          k \notin DOMAIN entries
          => (last'.arg.op = "BeginSession" /\ last'.ret.err = NilErr)]_vars

\* C18: UpdateState(token, state) makes exactly one Store call, the Save for
\* the given token, and returns that Save's result unchanged: the Save's error
\* as it is, or nil with the Store holding the state under the token's ID. No
\* key is tried on the token: this holds for any token, also one that no key
\* of the ring signed
C18_UpdateStateIsOneSave ==
    (last.arg.op = "UpdateState" /\ ~last.arg.token.isNil)
    => /\ last.ret.calls = <<StoreCall("Save", last.arg.token)>>
       /\ last.ret.tried = 0
       /\ ~last.ret.panicked
       /\ last.ret.err = IF last.arg.triggerError THEN StoreFailure("SETEX") ELSE NilErr
       /\ ~last.arg.triggerError => Holds(last.arg.token, last.arg.state)

\* UpdateState has saved state for a token that no key of the ring signed
C18_Witness ==
    /\ last.arg.op = "UpdateState"
    /\ ~last.arg.token.isNil
    /\ ~SignedByRing(last.arg.token)
    /\ Len(signingKeys) > 0
    /\ last.ret.err = NilErr
    /\ last.ret.calls = <<StoreCall("Save", last.arg.token)>>
    /\ Holds(last.arg.token, last.arg.state)

\* C19: the key ring of a constructed Manager is never empty and holds no
\* zero-length key
C19_RingValidated ==
    /\ Len(signingKeys) > 0
    /\ \A i \in DOMAIN signingKeys : Len(signingKeys[i]) > 0

C23_AtMostOneStoreCall ==
    /\ Len(last.ret.calls) <= 1
    /\ \A i \in DOMAIN last.ret.calls :
          last.ret.calls[i].op =
              CASE last.arg.op = "BeginSession" -> "Save"
                [] last.arg.op = "GetState" -> "Get"
                [] last.arg.op = "UpdateState" -> "Save"
                [] last.arg.op = "EndSession" -> "Delete"
                [] OTHER -> "none"
    /\ last.arg.op = "UpdateState" => Len(last.ret.calls) = 1

\* the Store's Get has failed inside GetState, and was called once
C23_Witness ==
    /\ last.arg.op = "GetState"
    /\ last.arg.triggerError
    /\ Presents(last.arg.req, hist.focus)
    /\ last.ret.err = "error getting session state: " \o StoreFailure("GET")
    /\ last.ret.calls = <<StoreCall("Get", hist.focus)>>

\* C24: GetState with a validly signed token whose ID has no Store entry
\* returns one and the same result, whether the entry was deleted by
\* EndSession or never written: a nil token, the Store's error for a missing
\* entry, and the caller's state untouched
C24_EndedLikeNeverStored ==
    (/\ last.arg.op = "GetState"
     /\ ~last.arg.triggerError
     /\ \E t \in PresentedTokens :
           /\ Presents(last.arg.req, t)
           /\ SignedByRing(t)
           /\ StoreKey(t) \notin DOMAIN entries)
    => /\ last.ret.tok.isNil
       /\ last.ret.err = "error getting session state: "
                         \o (IF store = "RedisStore" THEN "error executing GET: " \o ErrNil
                             ELSE "no data found")
       /\ last.ret.state = Untouched
       /\ ~last.ret.panicked
       /\ Len(last.ret.calls) = 1

\* GetState has been called with the token of a session that EndSession ended
C24_Witness ==
    /\ last.arg.op = "GetState"
    /\ ~last.arg.triggerError
    /\ hist.ended
    /\ Presents(last.arg.req, hist.focus)
    /\ SignedByRing(hist.focus)
    /\ StoreKey(hist.focus) \notin DOMAIN entries
    /\ last.ret.tok.isNil
    /\ last.ret.err # NilErr

\* C25: the error GetToken returns for a token that no key of the ring
\* verifies is the same whatever the reason of the failure: two GetToken calls
\* in a row that both fail verification return the same error
C25_OneVerificationError ==
    [][(/\ last.arg.op = "GetToken"
        /\ last'.arg.op = "GetToken"
        /\ last.ret.err \in VerificationErrors
        /\ last'.ret.err \in VerificationErrors)
       => last'.ret.err = last.ret.err]_vars

\* C26: the result GetState returns for a token that fails verification is
\* the result it returns for a validly signed token without session state:
\* a GetState that fails verification and a next GetState, with a validly
\* signed token that has no Store entry, return the same error
C26_InvalidLikeNoSession ==
    [][(/\ last.arg.op = "GetState"
        /\ last.ret.err \in VerificationErrors
        /\ last'.arg.op = "GetState"
        /\ ~last'.arg.triggerError
        /\ \E t \in PresentedTokens :
              /\ Presents(last'.arg.req, t)
              /\ SignedByRing(t)
              /\ StoreKey(t) \notin DOMAIN entries')
       => last'.ret.err = last.ret.err]_vars

\* C29: GetToken makes no Store call and leaves the Store as it is, and its
\* result does not depend on what the Store holds: for a request presenting a
\* token signed with a key of the ring it returns that token and a nil error,
\* also after EndSession has deleted the state of the token's session
C29_GetTokenIgnoresStore ==
    /\ [](last.arg.op = "GetToken"
          => /\ last.ret.calls = <<>>
             /\ \A t \in PresentedTokens :
                   (Presents(last.arg.req, t) /\ SignedByRing(t))
                   => (last.ret.tok = t /\ last.ret.err = NilErr))
    /\ [][last'.arg.op = "GetToken" => (entries' = entries /\ hist' = hist)]_vars

\* GetToken has returned the token of a session that EndSession ended
C29_Witness ==
    /\ last.arg.op = "GetToken"
    /\ hist.ended
    /\ StoreKey(hist.focus) \notin DOMAIN entries
    /\ Presents(last.arg.req, hist.focus)
    /\ last.ret.tok = hist.focus
    /\ last.ret.err = NilErr
    /\ last.ret.calls = <<>>

\* C30: BeginSession makes no Store call before its Save and does not look
\* for an entry under the new ID: it fails only when issuance or the Save
\* fails, and when it succeeds the Store holds the given state under the new
\* ID, so every token of that ID resolves to it; an entry the ID already had
\* is replaced
C30_BeginSessionOverwrites ==
    /\ [](last.arg.op = "BeginSession"
          => /\ \A i \in DOMAIN last.ret.calls : last.ret.calls[i].op = "Save"
             /\ (last.ret.err # NilErr /\ ~last.ret.panicked)
                => (last.ret.calls = <<>> \/ last.arg.triggerError)
             /\ BeginSucceeded
                => \A t \in PresentedTokens :
                      ID(t) = ID(last.ret.tok) => Holds(t, last.arg.state))
    /\ [][(/\ last'.arg.op = "BeginSession"
           /\ last'.ret.err = NilErr
           /\ ~last'.ret.tok.isNil
           /\ StoreKey(last'.ret.tok) \in DOMAIN entries)
          => entries' = [entries EXCEPT ![StoreKey(last'.ret.tok)] =
                                            GobEncode(last'.arg.state)]]_vars

\* BeginSession has returned a token with the ID of the session of another
\* token, which now holds the state of the new session
C30_Witness ==
    /\ BeginSucceeded
    /\ hist.since = "replaced"
    /\ last.ret.tok # hist.focus
    /\ ID(last.ret.tok) = ID(hist.focus)
    /\ last.arg.state = "s2"
    /\ Holds(hist.focus, "s2")
    /\ Holds(last.ret.tok, "s2")

(***************************************************************************)
(* Properties of a token's methods, under SpecToken                        *)
(***************************************************************************)
\* C27: a token is immutable once constructed: whatever the caller does with
\* the token and with the ID it obtained from it, String() and ID() return
\* what they returned first, and the caller has obtained no signature byte
\* through the ID
C27_TokenImmutable ==
    cpc = "held"
    => /\ String(cout.tok) = held.str
       /\ IDString(cout.tok) = held.idstr
       /\ held.sig = <<>>

(***************************************************************************)
(* Properties of concurrent calls, under SpecConcurrent                    *)
(***************************************************************************)
\* C21: concurrent BeginSession calls on one Manager are safe: no two calls
\* are inside the shared key-index selector at once, every call selects an
\* index inside the ring, and the selector's state is not corrupted
C21_SelectorSynchronized ==
    /\ Cardinality(rng.inside) <= 1
    /\ ~rng.corrupt
    /\ \A g \in Goroutines :
          (procs[g].op = "BeginSession" /\ procs[g].pc \in {"selected", "done"})
          => procs[g].keyidx \in 0..(Len(signingKeys) - 1)

\* C22, as stated: when two UpdateState calls race on the same token, after
\* both have returned the Store holds the state written by the call that
\* returned last
C22_AsStated ==
    (\A g \in Goroutines : procs[g].op = "UpdateState" /\ procs[g].pc = "done")
    => \A g \in Goroutines :
          procs[g].ret = Cardinality(Goroutines) => Holds(hist.focus, procs[g].state)

\* C22: when two UpdateState calls race on the same token, after both have
\* returned the Store holds exactly the state given to one of them, never a
\* mixture: the state of the call whose SETEX the server executed last,
\* whichever call returned last
C22_LastExecutedWins ==
    (\A g \in Goroutines : procs[g].op = "UpdateState" /\ procs[g].pc = "done")
    => /\ \A g \in Goroutines :
             procs[g].exec = Cardinality(Goroutines) => Holds(hist.focus, procs[g].state)
       /\ \E g \in Goroutines :
             entries[StoreKey(hist.focus)] = GobEncode(procs[g].state)
       /\ DOMAIN entries = {StoreKey(hist.focus)}

\* two UpdateState calls with different states have both returned, the one
\* executed first returning last; the Store holds the state of the other
C22_Witness ==
    /\ \A g \in Goroutines : procs[g].op = "UpdateState" /\ procs[g].pc = "done"
    /\ procs[1].exec < procs[2].exec
    /\ procs[1].ret > procs[2].ret
    /\ procs[1].state # procs[2].state
    /\ Holds(hist.focus, procs[2].state)

(***************************************************************************)
(* Properties of the RedisStore's time-to-live, under SpecRedis            *)
(***************************************************************************)
\* C28: in the Redis store, a Save that reaches the server stores the state
\* with a time-to-live of SessionDuration, every Get of an existing entry
\* resets its time-to-live to SessionDuration, and an entry expires only
\* after SessionDuration has passed with no Save and no Get for its token
C28_TimeToLive ==
    /\ []((last.arg.op = "Save" /\ ~last.arg.triggerError) => last.ret.err = NilErr)
    /\ [](\A k \in DOMAIN entries :
             /\ k \in DOMAIN redis.ttl
             /\ (redis.ttl[k] + redis.idle[k]) * 1000 = redis.duration)
    /\ [][(/\ last' # last
           /\ last'.arg.op \in {"Save", "Get"}
           /\ last'.ret.err = NilErr)
          => /\ getRedisKey(last'.arg.token) \in DOMAIN entries'
             /\ redis'.ttl[getRedisKey(last'.arg.token)] * 1000 = redis.duration]_vars
    /\ [][\A k \in DOMAIN entries :
             k \notin DOMAIN entries' => redis.idle[k] + 1 >= redis.duration \div 1000]_vars

(***************************************************************************)
(* Properties of the Manager, under Spec (continued)                       *)
(***************************************************************************)
\* C31: the token BeginSession returns is signed with the key of the ring at
\* the index the selector returned, an index of the ring; for a ring of
\* several keys the selector can return each index, so each key is used in
\* some run
C31_SignedWithRingKey ==
    BeginSucceeded
    => /\ last.arg.keyidx + 1 \in DOMAIN signingKeys
       /\ last.ret.tok.buf = Sign(ID(last.ret.tok), signingKeys[last.arg.keyidx + 1])

\* BeginSession has signed a token with the second key of a ring of two
C31_Witness ==
    /\ BeginSucceeded
    /\ Len(signingKeys) = 2
    /\ last.arg.keyidx = 1
    /\ signingKeys[1] # signingKeys[2]
    /\ last.ret.tok.buf = Sign(ID(last.ret.tok), signingKeys[2])
    /\ last.ret.tok.buf # Sign(ID(last.ret.tok), signingKeys[1])

(***************************************************************************)
(* Properties of the token codec, under SpecCodec (continued)              *)
(***************************************************************************)
\* C32: a token issued without error is an ID of exactly the requested length
\* followed by the 32 bytes of the ID's signature, so its string decodes to
\* idLength + 32 bytes; NewToken requests DefaultIDLength = 32 bytes
C32_IssuedLayout ==
    (cpc # "start" /\ cout.err = NilErr)
    => /\ ~cout.tok.isNil
       /\ LET n == IF cin.fn = "NewToken" THEN 32 ELSE cin.idLength
          IN  /\ IDLen(cout.tok) = n
              /\ Len(cout.tok.buf) = n + 32
              /\ SubSeq(cout.tok.buf, n + 1, n + 32) = HmacSum(SubSeq(cout.tok.buf, 1, n), cin.key)
              /\ Len(DecodeString(String(cout.tok)).buf) = n + 32
       /\ DefaultIDLength = 32
       /\ sha256Size = 32

\* NewToken has issued a token of 64 bytes
C32_Witness ==
    /\ cpc = "constructed"
    /\ cin.fn = "NewToken"
    /\ cin.key = K1
    /\ cout.err = NilErr
    /\ IDLen(cout.tok) = 32
    /\ Len(cout.tok.buf) = 64

(***************************************************************************)
(* Properties of RedisStore, under SpecRedis (continued)                   *)
(***************************************************************************)
\* C33: RedisStore.Save of a state gob cannot encode returns the encoding
\* error, also when the connection is down (no command reached it), and leaves
\* every saved state and every time-to-live as it was
C33_EncodingErrorBeforeCommand ==
    [][\A t \in RedisTokens, te \in BOOLEAN :
          SaveCall(t, FuncState, te)
          => /\ last'.ret.err = "error encoding session state: " \o ErrGobType
             /\ entries' = entries
             /\ redis' = redis]_vars

\* a state saved one second ago is still there, its time-to-live not renewed,
\* after a Save of a func() under the same token has failed
C33_Witness ==
    /\ last.arg.op = "Save"
    /\ last.arg.state = FuncState
    /\ last.ret.err = "error encoding session state: " \o ErrGobType
    /\ getRedisKey(last.arg.token) \in DOMAIN entries
    /\ entries[getRedisKey(last.arg.token)] = GobEncode("s1")
    /\ redis.idle[getRedisKey(last.arg.token)] = 1
    /\ redis.ttl[getRedisKey(last.arg.token)] = 1

(***************************************************************************)
(* Properties of the connection pool, under SpecPool                       *)
(***************************************************************************)
\* the last Get handed out a connection taken from the idle list
Reused == pool.got.conn # 0 /\ ~pool.got.dialed

\* the health test of NewRedisPool: a reused connection idle for testAfterIdle
\* or longer was PINGed before it was handed out, one idle for less was not,
\* and with testAfterIdle = 0 every reused connection was
HealthTested ==
    Reused
    => /\ pool.got.idleFor >= pool.testAfterIdle => pool.got.conn \in pool.got.pinged
       /\ pool.got.idleFor < pool.testAfterIdle => pool.got.conn \notin pool.got.pinged
       /\ pool.testAfterIdle = 0 => pool.got.conn \in pool.got.pinged

\* C34, as stated: the health test, and whenever a PING failed the Get dialed
\* a new connection and returned it without error
C34_AsStated ==
    /\ HealthTested
    /\ pool.got.failed # {}
       => /\ pool.got.dialed
          /\ pool.got.err = NilErr
          /\ pool.got.conn = pool.numDials

\* C34, corrected: the health test, and a connection whose PING failed is
\* closed and never handed out; the Get then hands out the next idle
\* connection that passes the test, or dials when none is left, and it returns
\* an error only when that Dial failed
C34_HealthTestOnBorrow ==
    /\ HealthTested
    /\ pool.got.failed # {}
       => /\ pool.got.failed \subseteq pool.got.pinged
          /\ pool.got.conn \notin pool.got.failed
          /\ pool.got.failed \cap pool.out = {}
          /\ \A i \in DOMAIN pool.idle : pool.idle[i].id \notin pool.got.failed
          /\ pool.got.err # NilErr => (pool.got.dialed /\ pool.got.conn = 0)
          /\ pool.got.err = NilErr => pool.got.conn # 0

\* with testAfterIdle of five minutes, the PING of a connection idle for five
\* minutes or longer has failed and the Get has dialed a new connection
C34_Witness ==
    /\ pool.testAfterIdle = 5
    /\ pool.got.failed # {}
    /\ pool.got.dialed
    /\ pool.got.err = NilErr
    /\ pool.got.conn = pool.numDials
    /\ pool.got.conn \in pool.out

(***************************************************************************)
(* Properties of the Manager, under Spec and SpecRequests (continued)      *)
(***************************************************************************)
\* C35: BeginSession, GetToken and GetState return, for every Manager
\* configuration, exactly one of a non-nil Token and a non-nil error: never
\* both, never neither, and the call does not abort
C35_TokenXorError ==
    last.arg.op \in {"BeginSession", "GetToken", "GetState"}
    => /\ ~last.ret.panicked
       /\ last.ret.tok.isNil <=> last.ret.err # NilErr

\* C36: GetToken returns normally, with a Token or an error, for every
\* candidate value; for the candidate that is exactly "Bearer" the slice
\* after the prefix is empty, not out of range, and an error is returned
C36_GetTokenReturnsNormally ==
    last.arg.op = "GetToken"
    => /\ ~last.ret.panicked
       /\ Candidate(last.arg.req) = authTypeBearer => last.ret.err \notin {NilErr, Panic}

\* C37: the index BeginSession draws is an index of the Manager's key list;
\* a Manager with an empty key list returns an error from BeginSession and
\* does not abort
C37_KeyIndexValid ==
    last.arg.op = "BeginSession"
    => /\ Len(signingKeys) > 0 => last.arg.keyidx + 1 \in DOMAIN signingKeys
       /\ Len(signingKeys) = 0 => (~last.ret.panicked /\ last.ret.err # NilErr)

(***************************************************************************)
(* Properties of the token codec, under SpecCodec (continued)              *)
(***************************************************************************)
\* C38: every token a VerifyToken accepts has an ID of at least MinIDLength
\* bytes
C38_AcceptedIDAtLeastMinimum ==
    (cver.fn # "none" /\ cver.err = NilErr)
    => /\ ~cver.tok.isNil
       /\ IDLen(cver.tok) >= MinIDLength

(***************************************************************************)
(* Properties of the Manager, under Spec (continued)                       *)
(***************************************************************************)
\* the tokens the last call was performed with: the one BeginSession issued,
\* the one UpdateState was given, those the request of GetState or EndSession
\* presents
UsedTokens ==
    IF last.arg.op = "BeginSession" THEN {last.ret.tok} \ {NilToken}
    ELSE IF last.arg.op = "UpdateState" THEN {last.arg.token} \ {NilToken}
    ELSE IF last.arg.op \in {"GetState", "EndSession"}
         THEN {t \in PresentedTokens : Presents(last.arg.req, t)}
    ELSE {}

\* the Store has the same entry, or the same lack of one, under the key
SameEntry(k) ==
    /\ k \in DOMAIN entries <=> k \in DOMAIN entries'
    /\ k \in DOMAIN entries => entries'[k] = entries[k]

\* C39: session isolation. The Store key of a token is a function of its ID:
\* tokens of one ID signed with different keys have one key. A call creates,
\* changes or deletes only the entry under the key of a token it was
\* performed with, and never the entry of a token with another ID
C39_SessionIsolation ==
    /\ [](\A t, u \in PresentedTokens : ID(t) = ID(u) => StoreKey(t) = StoreKey(u))
    /\ [][/\ \A k \in DOMAIN entries \cup DOMAIN entries' :
                SameEntry(k) \/ \E t \in UsedTokens' : k = StoreKey(t)
          /\ \A t \in UsedTokens', u \in PresentedTokens :
                ID(u) # ID(t) => SameEntry(StoreKey(u))]_vars

\* UpdateState with a token has written the entry that the token of the same
\* ID signed with the other key addresses, while the session of another ID
\* keeps a different state
C39_Witness ==
    /\ last.arg.op = "UpdateState"
    /\ last.ret.err = NilErr
    /\ \E t \in PresentedTokens :
          /\ t # last.arg.token
          /\ ID(t) = ID(last.arg.token)
          /\ Holds(t, last.arg.state)
    /\ \E u \in PresentedTokens :
          /\ ID(u) # ID(last.arg.token)
          /\ StoreKey(u) \in DOMAIN entries
          /\ GobDecode(entries[StoreKey(u)]) # last.arg.state

\* C40: EndSession is idempotent. When EndSession has succeeded with a valid
\* token, an EndSession that follows it with a request presenting the same
\* token, the Store working, succeeds as well and leaves the Store as the
\* first call left it
C40_EndSessionIdempotent ==
    [][\A t \in PresentedTokens, r \in Requests :
          (/\ last.arg.op = "EndSession"
           /\ last.ret.err = NilErr
           /\ ~last.ret.panicked
           /\ Presents(last.arg.req, t)
           /\ Presents(r, t)
           /\ SignedByRing(t)
           /\ EndSession(r, FALSE))
          => /\ last'.ret.err = NilErr
             /\ ~last'.ret.panicked
             /\ last'.ret.calls = <<StoreCall("Delete", t)>>
             /\ entries' = entries
             /\ StoreKey(t) \notin DOMAIN entries']_vars

\* EndSession has succeeded a second time in a row with the same token
C40_Witness ==
    /\ last.arg.op = "EndSession"
    /\ last.ret.err = NilErr
    /\ Presents(last.arg.req, hist.focus)
    /\ SignedByRing(hist.focus)
    /\ hist.since = "ended again"
    /\ hist.ended
    /\ StoreKey(hist.focus) \notin DOMAIN entries

====
